---------------------------- MODULE Spec2Model ----------------------------
(***************************************************************************)
(* A model of the trace-to-IR compiler of yk (JITModBuilder in             *)
(* src/ykllvmwrap/src/ykllvmwrap.cc).  One compilation walks a trace of    *)
(* (function, block) pairs over a read-only AOT module and stitches the    *)
(* traced instructions into a single function of a fresh JIT module.      *)
(*                                                                         *)
(* Conventions.                                                            *)
(*  - An IR value is a triple <<tag, name, n>>.  AOT side: "inst" (an      *)
(*    instruction, by its id), "arg" (formal n of function name), "gv",    *)
(*    "fn", "ce" (constant expression), "const", "asm".  JIT side:         *)
(*    "jinst" (clone number n), "jarg", "jgv", "jfn", "jce", "null".       *)
(*  - assert() failures, errx() and exit() end the compilation in the      *)
(*    state pc = "fatal" (the checked build).                              *)
(*  - The trace arrays are an input fixed before the call; the model       *)
(*    fixes each entry when the walk first reads it, which gives the same  *)
(*    behaviours as choosing the whole trace up front.                     *)
(***************************************************************************)
EXTENDS Naturals, Sequences, FiniteSets, TLC

\* Longest trace the model feeds to one compilation.
MaxTraceLen == 8

\* #define YK_CONTROL_POINT_ARG_IDX 1
YK_CONTROL_POINT_ARG_IDX == 1

TRACE_FUNC_PREFIX == "__yk_compiled_trace_"
YKTRACE_STOP == "__yktrace_stop_tracing"
YK_NEW_CONTROL_POINT == "yk_new_control_point"

-----------------------------------------------------------------------------
(* IR values *)

V(tag, name, n) == <<tag, name, n>>
Tag(v) == v[1]
NameOf(v) == v[2]
NumOf(v) == v[3]

NoVal == V("none", "", 0)
Inst(id) == V("inst", id, 0)
Arg(f, i) == V("arg", f, i)
GV(g) == V("gv", g, 0)
Fn(f) == V("fn", f, 0)
CE(c) == V("ce", c, 0)
Const(c) == V("const", c, 0)
Asm(a) == V("asm", a, 0)
JInst(n) == V("jinst", "", n)
JArg0 == V("jarg", "", 0)
JGV(g) == V("jgv", g, 0)
JFn(f) == V("jfn", f, 0)
JCE(c) == V("jce", c, 0)
NullVal == V("null", "", 0)

\* llvm::isa<Constant>: constants, constant expressions and global values of
\* either module.
IsConstant(v) == Tag(v) \in {"const", "ce", "gv", "fn", "jgv", "jfn", "jce", "null"}
IsAOTOwned(v) == Tag(v) \in {"inst", "arg", "gv", "fn"}

NullPtr == V("nullptr", "", 0)

-----------------------------------------------------------------------------
(* The AOT module: functions, blocks, instructions, globals, constant
   expressions and compile units.  An instruction lists all its operands in
   `ops`; a call's called operand is the last one (as in llvm::CallInst). *)

I(id, k, ops) ==
    [id |-> id, k |-> k, ops |-> ops, bbs |-> <<>>, idx |-> 0, aggTy |-> ""]
\* phi with incoming <<block index, value>> pairs
Phi(id, incs) ==
    [id |-> id, k |-> "phi", ops |-> [i \in 1..Len(incs) |-> incs[i][2]],
     bbs |-> [i \in 1..Len(incs) |-> incs[i][1]], idx |-> 0, aggTy |-> ""]
Call(id, args, callee) ==
    [id |-> id, k |-> "call", ops |-> Append(args, callee), bbs |-> <<>>,
     idx |-> 0, aggTy |-> ""]
InsertValue(id, agg, val, i) ==
    [id |-> id, k |-> "insertvalue", ops |-> <<agg, val>>, bbs |-> <<>>,
     idx |-> i, aggTy |-> ""]
ExtractValue(id, agg, i, ty) ==
    [id |-> id, k |-> "extractvalue", ops |-> <<agg>>, bbs |-> <<>>,
     idx |-> i, aggTy |-> ty]
Block(insts, targets) == [insts |-> insts, targets |-> targets]
Defn(nargs, blocks) == [decl |-> FALSE, nargs |-> nargs, blocks |-> blocks]
Decl(nargs) == [decl |-> TRUE, nargs |-> nargs, blocks |-> <<>>]
Global(const, hasInit, init) == [const |-> const, hasInit |-> hasInit, init |-> init]

CalledOperand(CI) == CI.ops[Len(CI.ops)]
ArgOperands(CI) == SubSeq(CI.ops, 1, Len(CI.ops) - 1)
\* CallInst::getCalledFunction: the callee when it is statically known.
HasCalledFunction(CI) == Tag(CalledOperand(CI)) = "fn"
CalledFunction(CI) == NameOf(CalledOperand(CI))

Undef == Const("undef")
\* The call every program uses to mark the control point:
\*   %cp = call %OutputStruct @yk_new_control_point(mt, %s)
CPCall(s) == Call("cp", <<Const("mt"), s>>, Fn(YK_NEW_CONTROL_POINT))
OutputStruct == "OutputStruct"

(* The AOT modules the model compiles traces of.  Every one has the shape the
   control-point pass gives an interpreter loop: block 0 of main sets up the
   state, block 1 packs the live variable into the aggregate, calls the control
   point and unpacks it again. *)

\* The start of block 1 of main, up to the unpacking of the live variable.
LoopHead ==
    << InsertValue("s", Undef, Inst("p"), 0),
       CPCall(Inst("s")),
       ExtractValue("pn", Inst("cp"), 0, OutputStruct) >>
Main0 == Block(<< I("p", "alloca", <<>>), I("br0", "br", <<>>) >>, {1})
CPDecl == (YK_NEW_CONTROL_POINT :> Decl(2))
NoGlobals == [g \in {} |-> Global(FALSE, FALSE, NoVal)]
NoCExprs == [c \in {} |-> <<>>]

\* The interpreter loop of the comment in createModule (lines 474-496): a stack
\* variable and a register variable carried round the loop through a PHI.
PLoop ==
    [name |-> "loop",
     funcs |-> CPDecl @@ [main |-> Defn(0, <<
        Block(<< I("a", "alloca", <<>>),
                 I("st0", "store", <<Const("0"), Inst("a")>>),
                 I("br0", "br", <<>>) >>, {1}),
        Block(<< Phi("b1", << <<0, Const("1")>>, <<1, Inst("binc")>> >>),
                 InsertValue("s0", Undef, Inst("a"), 0),
                 InsertValue("s", Inst("s0"), Inst("b1"), 1),
                 CPCall(Inst("s")),
                 ExtractValue("anew", Inst("cp"), 0, OutputStruct),
                 ExtractValue("bnew", Inst("cp"), 1, OutputStruct),
                 I("dbg", "dbg", <<>>),
                 I("aload", "load", <<Inst("anew")>>),
                 I("ainc", "add", <<Inst("aload"), Const("1")>>),
                 I("st", "store", <<Inst("ainc"), Inst("a")>>),
                 I("binc", "add", <<Inst("bnew"), Const("1")>>),
                 I("br1", "br", <<>>) >>, {1}) >>)],
     globals |-> NoGlobals, cexprs |-> NoCExprs, cus |-> {"cu0"}]

\* calls.c / call_args.c / cascading_conditionals.c / mutable_global.c: a call
\* with arguments that is inlined, a callee with several returns, a store to a
\* mutable global.
PCall ==
    [name |-> "call",
     funcs |-> CPDecl @@ [
       main |-> Defn(0, << Main0,
        Block(LoopHead \o
              << I("x", "load", <<Inst("pn")>>),
                 Call("r", <<Inst("x"), Const("3")>>, Fn("f")),
                 I("st", "store", <<Inst("r"), GV("res")>>),
                 I("br1", "br", <<>>) >>, {1}) >>),
       f |-> Defn(2, <<
        Block(<< I("c", "add", <<Arg("f", 0), Arg("f", 1)>>),
                 I("t", "icmp", <<Inst("c"), Const("0")>>),
                 I("brf", "br", <<Inst("t")>>) >>, {1, 2}),
        Block(<< I("ret1", "ret", <<Inst("c")>>) >>, {}),
        Block(<< I("ret2", "ret", <<Const("4")>>) >>, {}) >>)],
     globals |-> [res |-> Global(FALSE, TRUE, Const("12"))],
     cexprs |-> NoCExprs, cus |-> {"cu0"}]

\* fib.c: a recursive callee.
PRec ==
    [name |-> "rec",
     funcs |-> CPDecl @@ [
       main |-> Defn(0, << Main0,
        Block(LoopHead \o
              << I("n", "load", <<Inst("pn")>>),
                 Call("r", <<Inst("n")>>, Fn("fib")),
                 I("st", "store", <<Inst("r"), Inst("pn")>>),
                 I("br1", "br", <<>>) >>, {1}) >>),
       fib |-> Defn(1, <<
        Block(<< I("t", "icmp", <<Arg("fib", 0), Const("2")>>),
                 I("brf", "br", <<Inst("t")>>) >>, {1, 2}),
        Block(<< I("ret1", "ret", <<Const("1")>>) >>, {}),
        Block(<< I("m", "add", <<Arg("fib", 0), Const("-1")>>),
                 Call("a", <<Inst("m")>>, Fn("fib")),
                 I("sum", "add", <<Inst("a"), Arg("fib", 0)>>),
                 I("ret2", "ret", <<Inst("sum")>>) >>, {}) >>)],
     globals |-> NoGlobals, cexprs |-> NoCExprs, cus |-> {"cu0"}]

\* A recursive callee whose address is also stored as a function pointer
\* (funcptrarg_hasir.c) before it is called.
PRecFp ==
    [name |-> "recfp",
     funcs |-> CPDecl @@ [
       main |-> Defn(0, << Main0,
        Block(LoopHead \o
              << I("n", "load", <<Inst("pn")>>),
                 I("stf", "store", <<Fn("f"), Inst("pn")>>),
                 Call("r", <<Inst("n")>>, Fn("f")),
                 I("st", "store", <<Inst("r"), Inst("pn")>>),
                 I("br1", "br", <<>>) >>, {1}) >>),
       f |-> Defn(1, <<
        Block(<< I("t", "icmp", <<Arg("f", 0), Const("2")>>),
                 I("brf", "br", <<Inst("t")>>) >>, {1, 2}),
        Block(<< I("ret1", "ret", <<Const("1")>>) >>, {}),
        Block(<< I("m", "add", <<Arg("f", 0), Const("-1")>>),
                 Call("a", <<Inst("m")>>, Fn("f")),
                 I("ret2", "ret", <<Inst("a")>>) >>, {}) >>)],
     globals |-> NoGlobals, cexprs |-> NoCExprs, cus |-> {"cu0"}]

\* call_ext_simple.c / inline_asm.c / simple.c: a call of a function the module
\* only declares, a call of inline asm, and the call that stops tracing.
PExt ==
    [name |-> "ext",
     funcs |-> CPDecl @@ (YKTRACE_STOP :> Decl(0)) @@ [
       puts |-> Decl(1),
       main |-> Defn(0, << Main0,
        Block(LoopHead \o
              << I("x", "load", <<Inst("pn")>>),
                 Call("e", <<Inst("x")>>, Fn("puts")),
                 Call("asm", <<Inst("e")>>, Asm("nop")),
                 Call("stop", <<>>, Fn(YKTRACE_STOP)),
                 I("after", "add", <<Inst("x"), Const("1")>>),
                 I("br1", "br", <<>>) >>, {1}) >>)],
     globals |-> NoGlobals, cexprs |-> NoCExprs, cus |-> {}]

\* A call through a function pointer, before and after the control point.
PInd ==
    [name |-> "ind",
     funcs |-> CPDecl @@ [
       main |-> Defn(0, <<
        Block(<< I("p", "alloca", <<>>),
                 I("stg", "store", <<Fn("g"), Inst("p")>>),
                 I("fp0", "load", <<Inst("p")>>),
                 Call("r0", <<Const("0")>>, Inst("fp0")),
                 I("br0", "br", <<>>) >>, {1}),
        Block(LoopHead \o
              << I("fp", "load", <<Inst("pn")>>),
                 Call("r", <<Const("1")>>, Inst("fp")),
                 I("st", "store", <<Inst("r"), Inst("pn")>>),
                 I("br1", "br", <<>>) >>, {1}) >>),
       g |-> Defn(1, <<
        Block(<< I("y", "add", <<Arg("g", 0), Const("2")>>),
                 I("retg", "ret", <<Inst("y")>>) >>, {}) >>)],
     globals |-> NoGlobals, cexprs |-> NoCExprs, cus |-> {"cu0"}]

\* indirect_branch.c / const_global.c / constexpr.c: a constant global read
\* directly and through a constant expression, and a computed goto through a
\* constant table of block addresses.
PIbr ==
    [name |-> "ibr",
     funcs |-> CPDecl @@ [
       main |-> Defn(0, << Main0,
        Block(LoopHead \o
              << I("i", "load", <<Inst("pn")>>),
                 I("k1", "load", <<GV("k")>>),
                 I("k2", "load", <<CE("kgep")>>),
                 I("sum", "add", <<Inst("k1"), Inst("k2")>>),
                 I("st", "store", <<Inst("sum"), Inst("pn")>>),
                 I("t", "gep", <<GV("tbl"), Inst("i")>>),
                 I("addr", "load", <<Inst("t")>>),
                 I("ibr", "indirectbr", <<Inst("addr")>>) >>, {1, 2}),
        Block(<< I("sw", "switch", <<Inst("i")>>) >>, {1}) >>)],
     globals |-> [k |-> Global(TRUE, TRUE, Const("7")),
                  tbl |-> Global(TRUE, TRUE, Const("blockaddresses"))],
     cexprs |-> [kgep |-> <<GV("k"), Const("0")>>],
     cus |-> {"cu0"}]

\* struct_phi.c / choice.c: a PHI that selects between the address of a
\* constant global and a traced value.
PPhiG ==
    [name |-> "phig",
     funcs |-> CPDecl @@ [
       main |-> Defn(0, << Main0,
        Block(LoopHead \o
              << I("x", "load", <<Inst("pn")>>),
                 I("t", "icmp", <<Inst("x"), Const("0")>>),
                 I("br1", "br", <<Inst("t")>>) >>, {2, 3}),
        Block(<< Call("e", <<Inst("x")>>, Fn("puts")),
                 I("br2", "br", <<>>) >>, {4}),
        Block(<< Call("r", <<>>, Fn("h")),
                 I("br3", "br", <<>>) >>, {4}),
        Block(<< Phi("q", << <<2, GV("ga")>>, <<3, Inst("pn")>> >>),
                 I("v", "load", <<Inst("q")>>),
                 I("st", "store", <<Inst("v"), Inst("pn")>>),
                 I("br4", "br", <<>>) >>, {1}) >>),
       puts |-> Decl(1),
       h |-> Defn(0, << Block(<< I("reth", "ret", <<Const("7")>>) >>, {}) >>)],
     globals |-> [ga |-> Global(TRUE, TRUE, Const("5"))],
     cexprs |-> NoCExprs, cus |-> {"cu0"}]

\* call_ext_varargs.c: an external call at the end of a block, and a longer
\* block after it.
PExtBr ==
    [name |-> "extbr",
     funcs |-> CPDecl @@ [
       printf |-> Decl(1),
       main |-> Defn(0, << Main0,
        Block(LoopHead \o
              << Call("e", <<Const("fmt")>>, Fn("printf")),
                 I("br1", "br", <<>>) >>, {2}),
        Block(<< I("a", "load", <<Inst("pn")>>),
                 I("b", "add", <<Inst("a"), Const("1")>>),
                 I("c", "add", <<Inst("b"), Const("1")>>),
                 I("d", "add", <<Inst("c"), Const("1")>>),
                 I("st", "store", <<Const("0"), Inst("pn")>>),
                 I("br2", "br", <<>>) >>, {1}) >>)],
     globals |-> NoGlobals, cexprs |-> NoCExprs, cus |-> {"cu0"}]

\* trace_not_entry_bb.c: a stack variable allocated in the entry block, which
\* the trace does not hold, and not passed through the control point; it is
\* read in one block and passed to a callee in another.
PAlloca ==
    [name |-> "alloca",
     funcs |-> CPDecl @@ [
       main |-> Defn(0, <<
        Block(<< I("p", "alloca", <<>>),
                 I("res", "alloca", <<>>),
                 I("br0", "br", <<>>) >>, {1}),
        Block(LoopHead \o
              << I("t", "icmp", <<Inst("pn"), Const("0")>>),
                 I("br1", "br", <<Inst("t")>>) >>, {2, 3}),
        Block(<< I("x", "load", <<Inst("res")>>),
                 I("br2", "br", <<>>) >>, {1}),
        Block(<< Call("r", <<Inst("res")>>, Fn("use")),
                 I("br3", "br", <<>>) >>, {1}) >>),
       use |-> Defn(1, <<
        Block(<< I("retu", "ret", <<Arg("use", 0)>>) >>, {}) >>)],
     globals |-> NoGlobals, cexprs |-> NoCExprs, cus |-> {"cu0"}]

\* call_ext_simple.c: a declared function whose address is stored and which
\* is called twice.
PExtTwice ==
    [name |-> "exttwice",
     funcs |-> CPDecl @@ [
       putc |-> Decl(1),
       main |-> Defn(0, << Main0,
        Block(LoopHead \o
              << I("stf", "store", <<Fn("putc"), Inst("pn")>>),
                 Call("e1", <<Const("1")>>, Fn("putc")),
                 Call("e2", <<Inst("e1")>>, Fn("putc")),
                 I("br1", "br", <<>>) >>, {1}) >>)],
     globals |-> NoGlobals, cexprs |-> NoCExprs, cus |-> {"cu0"}]

\* A callee that is entered through a function pointer and calls itself by
\* name.
PIndRec ==
    [name |-> "indrec",
     funcs |-> CPDecl @@ [
       main |-> Defn(0, << Main0,
        Block(LoopHead \o
              << I("sth", "store", <<Fn("h"), Inst("pn")>>),
                 I("fp", "load", <<Inst("pn")>>),
                 Call("r", <<Const("1")>>, Inst("fp")),
                 I("st", "store", <<Inst("r"), Inst("pn")>>),
                 I("br1", "br", <<>>) >>, {1}) >>),
       h |-> Defn(1, <<
        Block(<< I("t", "icmp", <<Arg("h", 0), Const("2")>>),
                 I("brh", "br", <<Inst("t")>>) >>, {1, 2}),
        Block(<< I("ret1", "ret", <<Const("1")>>) >>, {}),
        Block(<< I("m", "add", <<Arg("h", 0), Const("-1")>>),
                 Call("a", <<Inst("m")>>, Fn("h")),
                 I("ret2", "ret", <<Inst("a")>>) >>, {}) >>)],
     globals |-> NoGlobals, cexprs |-> NoCExprs, cus |-> {"cu0"}]

\* A recursive callee that picks its branch with a computed goto.
PRecIbr ==
    [name |-> "recibr",
     funcs |-> CPDecl @@ [
       main |-> Defn(0, << Main0,
        Block(LoopHead \o
              << I("n", "load", <<Inst("pn")>>),
                 Call("r", <<Inst("n")>>, Fn("f")),
                 I("st", "store", <<Inst("r"), Inst("pn")>>),
                 I("br1", "br", <<>>) >>, {1}) >>),
       f |-> Defn(1, <<
        Block(<< I("t", "gep", <<GV("tbl"), Arg("f", 0)>>),
                 I("addr", "load", <<Inst("t")>>),
                 I("ibr", "indirectbr", <<Inst("addr")>>) >>, {1, 2}),
        Block(<< I("ret1", "ret", <<Const("1")>>) >>, {}),
        Block(<< I("m", "add", <<Arg("f", 0), Const("-1")>>),
                 Call("a", <<Inst("m")>>, Fn("f")),
                 I("ret2", "ret", <<Inst("a")>>) >>, {}) >>)],
     globals |-> [tbl |-> Global(TRUE, TRUE, Const("blockaddresses"))],
     cexprs |-> NoCExprs, cus |-> {"cu0"}]

\* An interpreter whose loop body is a function of its own: the function that
\* holds the control point returns to the loop in main that calls it.
PStep ==
    [name |-> "step",
     funcs |-> CPDecl @@ [
       main |-> Defn(0, <<
        Block(<< Call("c", <<>>, Fn("step")),
                 I("brm", "br", <<>>) >>, {0}) >>),
       step |-> Defn(0, << Main0,
        Block(LoopHead \o
              << I("x", "load", <<Inst("pn")>>),
                 I("st", "store", <<Inst("x"), Inst("pn")>>),
                 I("rets", "ret", <<>>) >>, {}) >>)],
     globals |-> NoGlobals, cexprs |-> NoCExprs, cus |-> {"cu0"}]

\* A constant global whose initialiser is the address of another constant
\* global, as in `const char *const msg = "abc";`.
PGInit ==
    [name |-> "ginit",
     funcs |-> CPDecl @@ [
       main |-> Defn(0, << Main0,
        Block(LoopHead \o
              << I("m", "load", <<GV("msg")>>),
                 I("st", "store", <<Inst("m"), Inst("pn")>>),
                 I("br1", "br", <<>>) >>, {1}) >>)],
     globals |-> [msg |-> Global(TRUE, TRUE, GV("str")),
                  str |-> Global(TRUE, TRUE, Const("abc"))],
     cexprs |-> NoCExprs, cus |-> {"cu0"}]

\* A computed goto whose address a function outside the module returns, as in
\* `goto *next_label(pc);`.
PIbrExt ==
    [name |-> "ibrext",
     funcs |-> CPDecl @@ [
       next_label |-> Decl(1),
       main |-> Defn(0, << Main0,
        Block(LoopHead \o
              << Call("addr", <<Inst("pn")>>, Fn("next_label")),
                 I("ibr", "indirectbr", <<Inst("addr")>>) >>, {1}) >>)],
     globals |-> NoGlobals, cexprs |-> NoCExprs, cus |-> {"cu0"}]

\* An input of the compile entry point: the module and the name/address arrays.
Input(module, fa) == [module |-> module, faddrs |-> fa]
Programs ==
    { Input(PLoop, <<>>),
      Input(PCall, << <<"f", 11>> >>),
      Input(PRec, << <<"fib", 12>> >>),
      Input(PRecFp, << <<"f", 13>> >>),
      Input(PExt, <<>>),
      Input(PInd, << <<"g", 14>> >>),
      Input(PIbr, <<>>),
      Input(PPhiG, <<>>),
      Input(PExtBr, <<>>),
      Input(PAlloca, << <<"use", 15>> >>),
      Input(PExtTwice, <<>>),
      Input(PIndRec, << <<"h", 16>> >>),
      Input(PRecIbr, << <<"f", 17>> >>),
      Input(PStep, << <<"step", 18>> >>),
      Input(PGInit, <<>>),
      Input(PIbrExt, <<>>),
      \* the same recursive callees, their names missing from the address arrays
      Input(PRec, <<>>),
      Input(PRecFp, <<>>) }

-----------------------------------------------------------------------------
VARIABLES
    aot,                  \* Module *AOTMod: the module being traced
    faddrs,               \* the FAddrKeys/FAddrVals input arrays, as <<name, addr>> pairs
    trace,                \* InputTrace: the entries read so far (0-based in the code)
    traceEnded,           \* TRUE once the walk has met InpTrace.Length()
    pc,                   \* "start", "head" (top of the for loop over the trace),
                          \* "body" (inside the loop over a block), "done", "fatal"
    Idx,                  \* the trace index of createModule's outer loop
    CurInstrIdx,          \* the instruction index of createModule's inner loop
    NextCompletedBlock,   \* createModule's local of that name
    NextTraceIdx,         \* atomic<uint64_t> NextTraceIdx
    JITMod,               \* Module *JITMod
    TraceName,
    VMap,
    globalMappings,
    cloned_globals,
    NewControlPointCall,
    InlinedCalls,
    ResumeAfter,          \* Optional<tuple>: <<>> or a one-element sequence
    RecCallDepth,
    ExpectUnmappable,
    DeleteDeadOnFinalise,
    LastCompletedBlocks,
    InsertValueMap,
    NextInst,             \* number of instructions created in JITMod so far
    returned,             \* what createModule returned: "none" or "module"
    threads,              \* the threads that compile: where each is in createJITFunc
                          \* and its local TraceIdx
    functions,            \* the names of the compiled-trace functions created so far
    Map,                  \* FuncAddrs::Map while the constructor fills it
    MapI,                 \* the constructor's loop index I
    CFName,               \* the name last looked up in the table ("" for none)
    FoundAddr,            \* the FAddr a lookup returned (0 for nullptr)
    YKD_PRINT_IR,         \* the environment variable: its comma-separated tokens,
                          \* <<>> when it is not set (a null pointer)
    Env,                  \* DebugIRPrinter's cursor into the variable's value
    toPrint,              \* DebugIRPrinter::toPrint, as the set of the bits set
    dip,                  \* where the DebugIRPrinter constructor is
    GlobalAOTModLoaded,   \* once_flag: "init", "running" or "done"
    GlobalAOTMod,         \* the module instance it holds (0 for the empty handle)
    ThreadAOTMod,         \* thread_local: the instance each thread holds (0 for none)
    ThreadAOTModInitialized, \* thread_local flag
    callers,              \* the threads in __ykllvmwrap_irtrace_compile: where each
                          \* is, its local AOTMod and the calls it has made
    AOTInstances          \* the module instances made so far: how each was made
                          \* ("load" or "clone"), by which thread, and of which

vars == <<aot, faddrs, trace, traceEnded, pc, Idx, CurInstrIdx,
          NextCompletedBlock, NextTraceIdx, JITMod, TraceName, VMap,
          globalMappings, cloned_globals, NewControlPointCall, InlinedCalls,
          ResumeAfter, RecCallDepth, ExpectUnmappable, DeleteDeadOnFinalise,
          LastCompletedBlocks, InsertValueMap, NextInst, returned,
          threads, functions, Map, MapI, CFName, FoundAddr, YKD_PRINT_IR, Env,
          toPrint, dip, GlobalAOTModLoaded, GlobalAOTMod, ThreadAOTMod,
          ThreadAOTModInitialized, callers, AOTInstances>>
\* What belongs to the process and not to one JITModBuilder.
mapVars == <<Map, MapI, CFName, FoundAddr>>
printerVars == <<YKD_PRINT_IR, Env, toPrint, dip>>
aotVars == <<GlobalAOTModLoaded, GlobalAOTMod, ThreadAOTMod,
             ThreadAOTModInitialized, callers, AOTInstances>>
procVars == <<threads, functions, mapVars, printerVars, aotVars>>
AOTIdle ==
    /\ GlobalAOTModLoaded = "init" /\ GlobalAOTMod = 0
    /\ ThreadAOTMod = <<>> /\ ThreadAOTModInitialized = <<>>
    /\ callers = <<>> /\ AOTInstances = <<>>

\* A trace entry is <<function name, block index>>; a null function name is a
\* hole.  nullptr in LastCompletedBlocks is NullBB.
Hole == <<"", 0>>
NullBB == <<"", 0>>
EmptyMap == [x \in {} |-> NoVal]
Put(m, k, v) == [x \in DOMAIN m \cup {k} |-> IF x = k THEN v ELSE m[x]]
Last(s) == s[Len(s)]
Front(s) == SubSeq(s, 1, Len(s) - 1)
SetLast(s, v) == [s EXCEPT ![Len(s)] = v]
RECURSIVE SeqToSet(_)
SeqToSet(s) == IF s = <<>> THEN {} ELSE {s[1]} \cup SeqToSet(Tail(s))

(* Reading the AOT module *)
DefinedFuncs == {f \in DOMAIN aot.funcs : ~aot.funcs[f].decl}
BlocksOf(f) == aot.funcs[f].blocks
BlockAt(f, b) == BlocksOf(f)[b + 1]
AllBlocks == UNION {{<<f, b - 1>> : b \in 1..Len(BlocksOf(f))} : f \in DefinedFuncs}
InstsOfBlock(e) == {BlockAt(e[1], e[2]).insts[i] : i \in 1..Len(BlockAt(e[1], e[2]).insts)}
AllInsts == UNION {InstsOfBlock(e) : e \in AllBlocks}
InstById(id) == CHOOSE x \in AllInsts : x.id = id
IsInst(v, k) == Tag(v) = "inst" /\ InstById(NameOf(v)).k = k
Terminator(e) == Last(BlockAt(e[1], e[2]).insts)

(* The traces fed to the compiler.  An entry may follow another when the
   blocks are related by control flow, a call, a return, or a hole; the first
   entry is any block.  A function name that the module does not hold and the
   block of the control-point function stand for the entries createModule
   rejects or skips. *)
CallsIn(e) == {x \in InstsOfBlock(e) : x.k = "call"}
IsIndirectCall(CI) == ~HasCalledFunction(CI) /\ Tag(CalledOperand(CI)) # "asm"
IsExternalCall(CI) ==
    /\ HasCalledFunction(CI)
    /\ CalledFunction(CI) \in DOMAIN aot.funcs
    /\ aot.funcs[CalledFunction(CI)].decl
    /\ CalledFunction(CI) # YK_NEW_CONTROL_POINT
IsControlPointCall(CI) ==
    CI.k = "call" /\ HasCalledFunction(CI) /\ CalledFunction(CI) = YK_NEW_CONTROL_POINT
DirectCallees(e) ==
    {CalledFunction(x) : x \in {y \in CallsIn(e) : HasCalledFunction(y)}} \cap DefinedFuncs
AddressTaken ==
    {f \in DefinedFuncs : \E x \in AllInsts : \E i \in 1..Len(x.ops) :
        x.ops[i] = Fn(f) /\ ~(x.k = "call" /\ i = Len(x.ops))}
HasIndirectCall(e) == \E x \in CallsIn(e) : IsIndirectCall(x)
HasExternalCall(e) == \E x \in CallsIn(e) : IsExternalCall(x)
MayCall(e, f) == f \in DirectCallees(e) \/ (HasIndirectCall(e) /\ f \in AddressTaken)
After(e) ==
    IF e = Hole
    THEN {b \in AllBlocks : HasExternalCall(b) \/ HasIndirectCall(b)}
         \cup {<<g, 0>> : g \in AddressTaken}
    ELSE IF e[1] \notin DefinedFuncs
    THEN {b \in AllBlocks : \E x \in CallsIn(b) : IsControlPointCall(x)}
    ELSE {<<e[1], t>> : t \in BlockAt(e[1], e[2]).targets}
         \cup {<<g, 0>> : g \in DirectCallees(e)
                             \cup (IF HasIndirectCall(e) THEN AddressTaken ELSE {})}
         \cup (IF Terminator(e).k = "ret"
               THEN {b \in AllBlocks : MayCall(b, e[1])} ELSE {})
         \cup (IF \E x \in CallsIn(e) : IsControlPointCall(x)
               THEN {<<YK_NEW_CONTROL_POINT, 0>>} ELSE {})
         \cup {Hole}
FirstEntries == AllBlocks \cup {Hole, <<"nosuch", 0>>}
\* The entries index i (0-based) of the trace may hold, given the entries read
\* so far: the one already read, or what may follow the last one.
EntriesAt(i) ==
    IF i < Len(trace) THEN {trace[i + 1]}
    ELSE IF traceEnded \/ Len(trace) >= MaxTraceLen \/ i > Len(trace) THEN {}
    ELSE IF trace = <<>> THEN FirstEntries
    ELSE After(Last(trace))
Read(i, e) == IF i < Len(trace) THEN trace ELSE Append(trace, e)

\* to_string(TraceIdx) appended to TRACE_FUNC_PREFIX
TraceNames == <<"__yk_compiled_trace_0", "__yk_compiled_trace_1",
                "__yk_compiled_trace_2", "__yk_compiled_trace_3">>
TraceFuncName(n) == TraceNames[n + 1]
HasTracePrefix(name) == \E i \in 1..Len(TraceNames) : TraceNames[i] = name

EmptyModule ==
    [funcs |-> [f \in {} |-> [linkage |-> "", cc |-> "", nblocks |-> 0, decl |-> TRUE]],
     globals |-> NoGlobals,
     cexprs |-> NoCExprs,
     body |-> <<>>,
     dbgcu |-> {}]

\* The state after JITModBuilder's constructor: an empty JIT module over one of
\* the AOT modules.
Init ==
    /\ \E P \in Programs : aot = P.module /\ faddrs = P.faddrs
    /\ trace = <<>>
    /\ traceEnded = FALSE
    /\ pc = "start"
    /\ Idx = 0
    /\ CurInstrIdx = 0
    /\ NextCompletedBlock = NullBB
    /\ NextTraceIdx = 0
    /\ JITMod = EmptyModule
    /\ TraceName = ""
    /\ VMap = EmptyMap
    /\ globalMappings = EmptyMap
    /\ cloned_globals = <<>>
    /\ NewControlPointCall = NoVal
    /\ InlinedCalls = <<>>
    /\ ResumeAfter = <<>>
    /\ RecCallDepth = 0
    /\ ExpectUnmappable = FALSE
    /\ DeleteDeadOnFinalise = <<>>
    /\ LastCompletedBlocks = <<>>
    /\ InsertValueMap = EmptyMap
    /\ NextInst = 0
    /\ returned = "none"
    /\ threads = <<>>
    /\ functions = <<>>
    /\ Map = EmptyMap /\ MapI = 0 /\ CFName = "" /\ FoundAddr = 0
    /\ YKD_PRINT_IR = <<>> /\ Env = <<>> /\ toPrint = {} /\ dip = "none"
    /\ AOTIdle

-----------------------------------------------------------------------------
(* JITModBuilder's methods, as operators on the builder's fields.  `err` is
   "" while the compilation runs, "fatal" after a failed assert, errx or exit,
   "ub" after undefined behaviour (back() of an empty vector, use of an erased
   value). *)

B == [aot |-> aot, JITMod |-> JITMod, VMap |-> VMap,
      globalMappings |-> globalMappings, cloned_globals |-> cloned_globals,
      NewControlPointCall |-> NewControlPointCall,
      InlinedCalls |-> InlinedCalls, ResumeAfter |-> ResumeAfter,
      RecCallDepth |-> RecCallDepth, ExpectUnmappable |-> ExpectUnmappable,
      DeleteDeadOnFinalise |-> DeleteDeadOnFinalise,
      LastCompletedBlocks |-> LastCompletedBlocks,
      InsertValueMap |-> InsertValueMap, NextInst |-> NextInst, err |-> ""]

Fail(b) == [b EXCEPT !.err = "fatal"]
FailUB(b) == [b EXCEPT !.err = IF @ = "" THEN "ub" ELSE @]
Remove(m, k) == [x \in DOMAIN m \ {k} |-> m[x]]

\* getMappedValue (lines 264-270); its assert is MappedValueOK.
GetMappedValue(b, v) == IF v \in DOMAIN b.VMap THEN b.VMap[v] ELSE v
MappedValueOK(b, v) == v \in DOMAIN b.VMap \/ IsConstant(v)

\* A faulty variant of isRecursiveCall: no call is recognised as recursive.
IsRecursiveCallNever(b, F) == FALSE

\* isRecursiveCall (lines 274-282)
IsRecursiveCall(b, F) ==
    \E i \in 1..Len(b.InlinedCalls) :
        LET CInst == b.InlinedCalls[i][2]
        IN  HasCalledFunction(CInst) /\ CalledFunction(CInst) = F

\* A faulty variant of declareFunction: the declaration is made, the value
\* map is not told.
DeclareFunctionUnmapped(b, F) ==
    IF F \in DOMAIN b.JITMod.funcs THEN Fail(b)
    ELSE [b EXCEPT
            !.JITMod.funcs = Put(@, F, [linkage |-> "external", cc |-> "C",
                                        nblocks |-> 0, decl |-> TRUE])]

\* declareFunction (lines 285-291)
DeclareFunction(b, F) ==
    IF F \in DOMAIN b.JITMod.funcs THEN Fail(b)
    ELSE [b EXCEPT
            !.JITMod.funcs = Put(@, F, [linkage |-> "external", cc |-> "C",
                                        nblocks |-> 0, decl |-> TRUE]),
            !.VMap = Put(@, Fn(F), JFn(F))]

\* FuncAddrs (lines 187-205): map::insert keeps the entry a name already has;
\* operator[] returns nullptr (0) for a name that is not there.
FuncAddrsLookup(fa, name) ==
    IF \E i \in 1..Len(fa) : fa[i][1] = name
    THEN fa[CHOOSE i \in 1..Len(fa) :
                /\ fa[i][1] = name
                /\ \A j \in 1..(i - 1) : fa[j][1] # name][2]
    ELSE 0

\* addGlobalMappingForFunction (lines 295-300)
AddGlobalMappingForFunction(b, CF) ==
    LET FAddr == FuncAddrsLookup(faddrs, CF)
    IN  IF FAddr = 0 THEN Fail(b)
        ELSE [b EXCEPT !.globalMappings =
                 IF CF \in DOMAIN @ THEN @ ELSE Put(@, CF, FAddr)]

\* A faulty variant of the GlobalVariable branch: the initialiser is moved to
\* the new global instead of being left for finalise to copy.
CloneGlobalVariableMovesInit(b, Op) ==
    LET OldGV == b.aot.globals[NameOf(Op)]
    IN  [b EXCEPT
            !.JITMod.globals = Put(@, NameOf(Op), OldGV),
            !.aot.globals[NameOf(Op)] = Global(OldGV.const, FALSE, NoVal),
            !.VMap = Put(@, Op, JGV(NameOf(Op))),
            !.cloned_globals = IF OldGV.const THEN Append(@, NameOf(Op)) ELSE @]

\* The GlobalVariable branch of handleOperand (lines 726-743)
CloneGlobalVariable(b, Op) ==
    LET OldGV == b.aot.globals[NameOf(Op)]
    IN  [b EXCEPT
            !.JITMod.globals = Put(@, NameOf(Op), Global(OldGV.const, FALSE, NoVal)),
            !.VMap = Put(@, Op, JGV(NameOf(Op))),
            !.cloned_globals = IF OldGV.const THEN Append(@, NameOf(Op)) ELSE @]

\* A faulty variant of the alloca check: a fresh stack allocation is made in
\* the JIT function for the operand.
MaterialiseAlloca(b, Op) ==
    [b EXCEPT
        !.VMap = Put(@, Op, JInst(b.NextInst)),
        !.JITMod.body = Append(@, [n |-> b.NextInst, k |-> "alloca", src |-> "",
                                   ops |-> <<>>, idx |-> 0]),
        !.NextInst = @ + 1]

\* Line 709: assert(!isa<llvm::AllocaInst>(Op)) for an operand that the value
\* map does not hold.
RejectAlloca(b, Op) == Fail(b)

\* handleOperand (lines 702-763)
RECURSIVE HandleOperand(_, _), HandleOperands(_, _)
HandleOperands(b, ops) ==
    IF ops = <<>> THEN b
    ELSE HandleOperands(HandleOperand(b, Head(ops)), Tail(ops))
HandleOperand(b, Op) ==
    IF b.err # "" \/ Op \in DOMAIN b.VMap THEN b
    ELSE IF IsInst(Op, "alloca") THEN RejectAlloca(b, Op)
    ELSE IF Tag(Op) = "ce" THEN
        LET CEOps == b.aot.cexprs[NameOf(Op)]
            b1 == HandleOperands(b, CEOps)
            NewCEOps == [i \in 1..Len(CEOps) |-> GetMappedValue(b1, CEOps[i])]
            \* getWithOperands returns the expression itself when no operand changed
            NewCExpr == IF NewCEOps = CEOps THEN Op ELSE JCE(NameOf(Op))
        IN  IF b1.err # "" THEN b1
            ELSE IF \E i \in 1..Len(CEOps) : ~IsConstant(NewCEOps[i]) THEN Fail(b1)
            ELSE [b1 EXCEPT
                    !.JITMod.cexprs = IF NewCExpr = Op THEN @
                                      ELSE Put(@, NameOf(Op), NewCEOps),
                    !.VMap = Put(@, Op, NewCExpr)]
    ELSE IF Tag(Op) = "gv" THEN CloneGlobalVariable(b, Op)
    ELSE IF IsConstant(Op) \/ Tag(Op) = "asm" THEN
        IF Tag(Op) = "fn" THEN DeclareFunction(b, NameOf(Op)) ELSE b
    ELSE IF Op = b.NewControlPointCall THEN
        [b EXCEPT !.VMap = Put(@, Op, NullVal)]
    ELSE Fail(b)

\* copyInstruction (lines 765-792)
CopyInstruction(b, Ins) ==
    LET b1 == HandleOperands(b, Ins.ops)
        NewInst == [n |-> b1.NextInst, k |-> Ins.k, src |-> Ins.id,
                    ops |-> [i \in 1..Len(Ins.ops) |-> GetMappedValue(b1, Ins.ops[i])],
                    idx |-> Ins.idx]
    IN  IF b1.err # "" THEN b1
        ELSE [b1 EXCEPT
                !.VMap = Put(@, Inst(Ins.id), JInst(b1.NextInst)),
                !.JITMod.body = Append(@, NewInst),
                !.NextInst = @ + 1]

\* A faulty variant of the binding: the formal is bound to the AOT actual.
BindArgumentUnmapped(b, A, Var) == [b EXCEPT !.VMap = Put(@, A, Var)]
\* Line 348: VMap[Arg] = getMappedValue(Var)
BindArgument(b, A, Var) == [b EXCEPT !.VMap = Put(@, A, GetMappedValue(b, Var))]

\* The inlining branch of handleCallInst (lines 339-349): bind the callee's
\* formal parameters to the JIT values of the actual arguments.
RECURSIVE MapArguments(_, _, _, _)
MapArguments(b, CI, CF, i) ==
    IF b.err # "" \/ i > Len(ArgOperands(CI)) THEN b
    ELSE LET Var == ArgOperands(CI)[i]
             b1 == HandleOperand(b, Var)
         IN  IF b1.err # "" THEN b1
             ELSE IF ~MappedValueOK(b1, Var) THEN Fail(b1)
             ELSE MapArguments(BindArgument(b1, Arg(CF, i - 1), Var), CI, CF, i + 1)

\* A faulty variant of the counting: the frame is pushed, the depth stays.
CountCallKeepsDepth(b, InstrIdx, CI) ==
    [b EXCEPT !.InlinedCalls = Append(@, <<InstrIdx, CI>>)]
\* Lines 321-322: a call met while a recursive call is outlined is counted.
CountCall(b, InstrIdx, CI) ==
    [b EXCEPT !.RecCallDepth = @ + 1,
              !.InlinedCalls = Append(@, <<InstrIdx, CI>>)]

\* handleCallInst (lines 302-351).  CF is the callee's name, "" for nullptr.
HandleCallInst(b, CI, CF, InstrIdx) ==
    IF CF = "" \/ b.aot.funcs[CF].decl THEN
        LET b1 == IF CF # "" /\ Fn(CF) \notin DOMAIN b.VMap
                  THEN DeclareFunction(b, CF) ELSE b
            b2 == IF b1.err = "" /\ b1.RecCallDepth = 0
                  THEN CopyInstruction(b1, CI) ELSE b1
        IN  [b2 EXCEPT !.ExpectUnmappable = TRUE,
                       !.ResumeAfter = << <<InstrIdx, CI>> >>]
    ELSE
        LET b0 == [b EXCEPT !.LastCompletedBlocks = Append(@, NullBB)]
        IN  IF b0.RecCallDepth > 0 THEN CountCall(b0, InstrIdx, CI)
            ELSE IF IsRecursiveCall(b0, CF) THEN
                LET b1 == IF Fn(CF) \notin DOMAIN b0.VMap
                          THEN AddGlobalMappingForFunction(DeclareFunction(b0, CF), CF)
                          ELSE b0
                    b2 == IF b1.err = "" THEN CopyInstruction(b1, CI) ELSE b1
                IN  [b2 EXCEPT !.InlinedCalls = Append(@, <<InstrIdx, CI>>),
                               !.RecCallDepth = 1]
            ELSE
                MapArguments(
                    [b0 EXCEPT !.InlinedCalls = Append(@, <<InstrIdx, CI>>)],
                    CI, CF, 1)

\* What back() of an empty InlinedCalls yields: not a call of the module.
GarbageCall == Call("garbage", <<>>, NullPtr)

\* handleReturnInst (lines 353-369)
HandleReturnInst(b, Ins) ==
    IF b.InlinedCalls = <<>> \/ b.LastCompletedBlocks = <<>> THEN
        \* back() and pop_back() of an empty vector
        FailUB([b EXCEPT !.ResumeAfter = << <<0, GarbageCall>> >>,
                         !.LastCompletedBlocks = IF @ = <<>> THEN @ ELSE Front(@)])
    ELSE
        LET b1 == [b EXCEPT !.ResumeAfter = << Last(b.InlinedCalls) >>,
                            !.InlinedCalls = Front(@),
                            !.LastCompletedBlocks = Front(@)]
            CI == Last(b.InlinedCalls)[2]
        IN  IF b1.RecCallDepth > 0 THEN [b1 EXCEPT !.RecCallDepth = @ - 1]
            ELSE IF Ins.ops # <<>> THEN
                LET OldRetVal == Ins.ops[1]
                IN  IF ~MappedValueOK(b1, OldRetVal) THEN Fail(b1)
                    ELSE [b1 EXCEPT !.VMap = Put(@, Inst(CI.id),
                                                 GetMappedValue(b1, OldRetVal))]
            ELSE b1

\* PHINode::getIncomingValueForBlock: the value for predecessor BB of the PHI
\* in function F; asserts that BB is a predecessor.
HasIncoming(Ins, F, BB) ==
    BB[1] = F /\ \E i \in 1..Len(Ins.bbs) : Ins.bbs[i] = BB[2]
IncomingValueForBlock(Ins, BB) ==
    Ins.ops[CHOOSE i \in 1..Len(Ins.bbs) : Ins.bbs[i] = BB[2]]

\* handlePHINode (lines 371-374)
HandlePHINode(b, Ins, F, BB) ==
    IF ~HasIncoming(Ins, F, BB) THEN Fail(b)
    ELSE LET Val == IncomingValueForBlock(Ins, BB)
         IN  IF ~MappedValueOK(b, Val) THEN Fail(b)
             ELSE [b EXCEPT !.VMap = Put(@, Inst(Ins.id), GetMappedValue(b, Val))]

(* Users of a value.  Values created for the JIT module have their users in
   it; every other value (an AOT value, a shared constant) reached the JIT
   module through an operand of an AOT instruction, which also uses it. *)
IsJITOwned(v) == Tag(v) \in {"jinst", "jarg", "jgv", "jfn", "jce"}
JITUsers(b, v) ==
    {<<"jinst", i>> : i \in {j \in 1..Len(b.JITMod.body) :
        \E o \in 1..Len(b.JITMod.body[j].ops) : b.JITMod.body[j].ops[o] = v}}
    \cup {<<"jce", c>> : c \in {d \in DOMAIN b.JITMod.cexprs :
        \E o \in 1..Len(b.JITMod.cexprs[d]) : b.JITMod.cexprs[d][o] = v}}
    \cup {<<"jgv", g>> : g \in {h \in DOMAIN b.JITMod.globals :
        b.JITMod.globals[h].hasInit /\ b.JITMod.globals[h].init = v}}
UserEmpty(b, v) == IsJITOwned(v) /\ JITUsers(b, v) = {}
HasOneUser(b, v) == IsJITOwned(v) /\ Cardinality(JITUsers(b, v)) = 1

BodyIndex(b, v) == CHOOSE i \in 1..Len(b.JITMod.body) : b.JITMod.body[i].n = NumOf(v)
InBody(b, v) == \E i \in 1..Len(b.JITMod.body) : b.JITMod.body[i].n = NumOf(v)
RemoveAt(s, i) == SubSeq(s, 1, i - 1) \o SubSeq(s, i + 1, Len(s))
\* A faulty variant of the operand scan: no operand is queued.
SelectOpsNone(b, ops) == <<>>
\* Lines 407-411 and 415-419: the operands whose one user is the value erased
SelectOps(b, ops) == SelectSeq(ops, LAMBDA o : HasOneUser(b, o))
\* erase_if(cloned_globals, ...) of lines 422-425
EraseCloned(b, G) ==
    SelectSeq(b.cloned_globals, LAMBDA CG : ~(b.VMap[GV(CG)] = G))

\* The while loop of deleteDeadTransitive (lines 399-430) over the work list.
RECURSIVE DeleteWork(_, _)
DeleteWork(b, Work) ==
    IF b.err = "fatal" \/ Work = <<>> THEN b
    ELSE
        LET Val == Last(Work)
            Rest == Front(Work)
        IN  IF Tag(Val) = "jinst" THEN
                \* erased before: a dangling pointer, and when the process
                \* survives its use there is nothing left to erase
                IF ~InBody(b, Val) THEN DeleteWork(FailUB(b), Rest)
                ELSE LET i == BodyIndex(b, Val)
                         Ins == b.JITMod.body[i]
                     IN  IF JITUsers(b, Val) # {} THEN Fail(b)  \* ~Value: uses remain
                         ELSE DeleteWork(
                                [b EXCEPT !.JITMod.body = RemoveAt(@, i)],
                                Rest \o SelectOps(b, Ins.ops))
            ELSE IF Tag(Val) = "jgv" THEN
                IF NameOf(Val) \notin DOMAIN b.JITMod.globals
                THEN DeleteWork(FailUB(b), Rest)
                ELSE IF \E k \in 1..Len(b.cloned_globals) :
                            GV(b.cloned_globals[k]) \notin DOMAIN b.VMap THEN Fail(b)
                ELSE DeleteWork(
                        [b EXCEPT !.cloned_globals = EraseCloned(b, Val),
                                  !.JITMod.globals = Remove(@, NameOf(Val))],
                        Rest)
            ELSE IF Tag(Val) = "gv" THEN
                \* a global variable of the AOT module: eraseFromParent takes it
                \* out of that module
                IF NameOf(Val) \notin DOMAIN b.aot.globals
                THEN DeleteWork(FailUB(b), Rest)
                ELSE DeleteWork(
                        [b EXCEPT !.cloned_globals = EraseCloned(b, Val),
                                  !.aot.globals = Remove(@, NameOf(Val))],
                        Rest)
            ELSE Fail(b)   \* dumpValueAndExit("Unexpected Value")

\* deleteDeadTransitive (lines 395-431)
DeleteDeadTransitive(b, Val) ==
    IF b.err = "fatal" THEN b
    ELSE IF ~UserEmpty(b, Val) THEN Fail(b)
    ELSE DeleteWork(b, <<Val>>)

RECURSIVE DeleteAllDead(_, _)
DeleteAllDead(b, dead) ==
    IF dead = <<>> THEN b
    ELSE DeleteAllDead(DeleteDeadTransitive(b, Head(dead)), Tail(dead))

\* llvm::MapValue on an initialiser: a value the map holds is replaced, any
\* other constant is kept.
MapValue(b, v) == IF v \in DOMAIN b.VMap THEN b.VMap[v] ELSE v

\* A faulty variant of line 811: the new global is left without initialiser.
SetInitializerNot(b, NewGV, G) == b
\* Line 811: NewGV->setInitializer(MapValue(G->getInitializer(), VMap))
SetInitializer(b, NewGV, G) ==
    [b EXCEPT !.JITMod.globals[NameOf(NewGV)] =
        [@ EXCEPT !.hasInit = TRUE,
                  !.init = MapValue(b, b.aot.globals[G].init)]]

\* The loop over cloned_globals in finalise (lines 805-812)
RECURSIVE InitGlobals(_, _)
InitGlobals(b, gs) ==
    IF b.err = "fatal" \/ gs = <<>> THEN b
    ELSE LET G == Head(gs)
             NewGV == b.VMap[GV(G)]
         IN  IF Tag(NewGV) # "jgv" \/ NameOf(NewGV) \notin DOMAIN b.JITMod.globals
             THEN Fail(b)    \* cast<GlobalVariable>
             ELSE IF ~b.aot.globals[G].hasInit THEN InitGlobals(b, Tail(gs))
             ELSE InitGlobals(SetInitializer(b, NewGV, G), Tail(gs))

\* finalise (lines 796-828)
Finalise(b) ==
    LET b1 == DeleteAllDead(b, b.DeleteDeadOnFinalise)
        b2 == InitGlobals(b1, b1.cloned_globals)
    IN  IF b2.err = "fatal" THEN b2
        ELSE [b2 EXCEPT !.JITMod.dbgcu = @ \cup b2.aot.cus]

-----------------------------------------------------------------------------
(* createModule (lines 453-700), one action per path through its loops. *)

\* F->user_back() of the control point function: its call site.
ControlPointCallSite == CHOOSE x \in AllInsts : IsControlPointCall(x)
\* getYkCtrlPointVarsStruct (lines 209-215)
GetYkCtrlPointVarsStruct == ArgOperands(ControlPointCallSite)[YK_CONTROL_POINT_ARG_IDX + 1]

\* A faulty variant of the recording: a PHI is recorded like any other value.
RecordInsertedAlways(m, IVI) == Put(m, IVI.idx, IVI.ops[2])
\* Lines 528-530: the inserted value is recorded at its index unless it is a
\* PHI.
RecordInserted(m, IVI) ==
    IF IsInst(IVI.ops[2], "phi") THEN m ELSE Put(m, IVI.idx, IVI.ops[2])

\* The loop of lines 526-533 over the chain of insertvalue instructions.
RECURSIVE BuildInsertValueMap(_, _)
BuildInsertValueMap(m, OutS) ==
    IF ~IsInst(OutS, "insertvalue") THEN m
    ELSE LET IVI == InstById(NameOf(OutS))
             Inserted == IVI.ops[2]
         IN  BuildInsertValueMap(RecordInserted(m, IVI), IVI.ops[1])

\* A faulty variant of createJITFunc: the function gets external linkage.
CreateJITFuncExternal(m, name) ==
    [m EXCEPT !.funcs = Put(@, name, [linkage |-> "external", cc |-> "C",
                                      nblocks |-> 0, decl |-> TRUE])]

\* createJITFunc (lines 376-391)
CreateJITFunc(m, name) ==
    [m EXCEPT !.funcs = Put(@, name, [linkage |-> "internal", cc |-> "C",
                                      nblocks |-> 0, decl |-> TRUE])]
\* BasicBlock::Create(JITContext, "", JITFunc)
CreateEntryBlock(m, name) ==
    [m EXCEPT !.funcs[name] = [@ EXCEPT !.nblocks = @ + 1, !.decl = FALSE]]

\* Lines 456-550: everything createModule does before its loop over the trace.
CreateModuleInit ==
    /\ pc = "start"
    /\ LET CPCI == ControlPointCallSite
           TraceInputs == GetYkCtrlPointVarsStruct
           Name == TraceFuncName(NextTraceIdx)
       IN  /\ InsertValueMap' = BuildInsertValueMap(InsertValueMap, ArgOperands(CPCI)[2])
           /\ NextTraceIdx' = NextTraceIdx + 1
           /\ TraceName' = Name
           /\ JITMod' = CreateEntryBlock(CreateJITFunc(JITMod, Name), Name)
           /\ VMap' = Put(Put(VMap, Inst(CPCI.id), JArg0), TraceInputs, JArg0)
    /\ LastCompletedBlocks' = Append(LastCompletedBlocks, NullBB)
    /\ NextCompletedBlock' = NullBB
    /\ Idx' = 0
    /\ pc' = "head"
    /\ UNCHANGED <<aot, faddrs, trace, traceEnded, CurInstrIdx, globalMappings,
                   cloned_globals, NewControlPointCall, InlinedCalls, ResumeAfter,
                   RecCallDepth, ExpectUnmappable, DeleteDeadOnFinalise, NextInst,
                   returned, procVars>>

\* The builder's fields after a step.
SetBuilder(b) ==
    /\ aot' = b.aot
    /\ JITMod' = b.JITMod
    /\ VMap' = b.VMap
    /\ globalMappings' = b.globalMappings
    /\ cloned_globals' = b.cloned_globals
    /\ NewControlPointCall' = b.NewControlPointCall
    /\ InlinedCalls' = b.InlinedCalls
    /\ ResumeAfter' = b.ResumeAfter
    /\ RecCallDepth' = b.RecCallDepth
    /\ ExpectUnmappable' = b.ExpectUnmappable
    /\ DeleteDeadOnFinalise' = b.DeleteDeadOnFinalise
    /\ LastCompletedBlocks' = b.LastCompletedBlocks
    /\ InsertValueMap' = b.InsertValueMap
    /\ NextInst' = b.NextInst
    /\ UNCHANGED <<faddrs, NextTraceIdx, TraceName, procVars>>

\* The instruction the inner loop is at (lines 582-591).
CurInsts == BlockAt(NextCompletedBlock[1], NextCompletedBlock[2]).insts
\* A faulty variant of the skip: the walk resumes at the call itself.
EffIdxAtCall == IF ResumeAfter # <<>> THEN ResumeAfter[1][1] ELSE CurInstrIdx
EffIdx == IF ResumeAfter # <<>> THEN ResumeAfter[1][1] + 1 ELSE CurInstrIdx
AtInstr == pc = "body" /\ CurInstrIdx < Len(CurInsts) /\ EffIdx < Len(CurInsts)
CurI == CurInsts[EffIdx + 1]
\* ResumeAfter.reset() of line 587
BR == [B EXCEPT !.ResumeAfter = <<>>]

\* Where control goes after the instruction: `continue` and `break` of the
\* inner loop, `return JITMod`, or the end of the process.
Goto(b, next) ==
    IF b.err = "fatal" THEN pc' = "fatal" /\ UNCHANGED <<Idx, CurInstrIdx, returned>>
    ELSE IF b.err = "ub" /\ next = "crash" THEN
        pc' = "fatal" /\ UNCHANGED <<Idx, CurInstrIdx, returned>>
    ELSE IF next = "continue" THEN
        pc' = "body" /\ CurInstrIdx' = EffIdx + 1 /\ UNCHANGED <<Idx, returned>>
    ELSE IF next = "break" THEN
        pc' = "head" /\ Idx' = Idx + 1 /\ CurInstrIdx' = 0 /\ UNCHANGED returned
    ELSE pc' = "done" /\ returned' = "module" /\ UNCHANGED <<Idx, CurInstrIdx>>

\* After undefined behaviour the process either dies or goes on.
Outcomes(b, next) == IF b.err = "ub" THEN {"crash", next} ELSE {next}

Step(b, next) ==
    /\ SetBuilder(b)
    /\ \E o \in Outcomes(b, next) : Goto(b, o)
    /\ UNCHANGED <<trace, traceEnded, NextCompletedBlock>>

(* The top of the loop over the trace (lines 553-578). *)

HeadFrame ==
    UNCHANGED <<aot, faddrs, NextTraceIdx, JITMod, TraceName, VMap, globalMappings,
                cloned_globals, NewControlPointCall, InlinedCalls, ResumeAfter,
                RecCallDepth, DeleteDeadOnFinalise, InsertValueMap, NextInst,
                returned, traceEnded, procVars>>

\* A faulty variant of ConsumeHole: ExpectUnmappable stays set.
ConsumeHoleKeepsFlag ==
    /\ pc = "head"
    /\ \E e \in EntriesAt(Idx) :
        /\ e = Hole /\ ExpectUnmappable
        /\ trace' = Read(Idx, e)
    /\ Idx' = Idx + 1
    /\ UNCHANGED <<pc, CurInstrIdx, NextCompletedBlock, LastCompletedBlocks,
                   ExpectUnmappable>>
    /\ HeadFrame

\* Lines 555-558: the hole an external call left in the trace.
ConsumeHole ==
    /\ pc = "head"
    /\ \E e \in EntriesAt(Idx) :
        /\ e = Hole /\ ExpectUnmappable
        /\ trace' = Read(Idx, e)
    /\ ExpectUnmappable' = FALSE
    /\ Idx' = Idx + 1
    /\ UNCHANGED <<pc, CurInstrIdx, NextCompletedBlock, LastCompletedBlocks>>
    /\ HeadFrame

\* Line 559: assert(MaybeIB.hasValue())
UnexpectedHole ==
    /\ pc = "head"
    /\ \E e \in EntriesAt(Idx) :
        /\ e = Hole /\ ~ExpectUnmappable
        /\ trace' = Read(Idx, e)
    /\ pc' = "fatal"
    /\ UNCHANGED <<Idx, CurInstrIdx, NextCompletedBlock, LastCompletedBlocks,
                   ExpectUnmappable>>
    /\ HeadFrame

\* Lines 563-565: errx("can't find function")
UnknownFunction ==
    /\ pc = "head"
    /\ \E e \in EntriesAt(Idx) :
        /\ e # Hole /\ e[1] \notin DOMAIN aot.funcs
        /\ trace' = Read(Idx, e)
    /\ pc' = "fatal"
    /\ UNCHANGED <<Idx, CurInstrIdx, NextCompletedBlock, LastCompletedBlocks,
                   ExpectUnmappable>>
    /\ HeadFrame

\* Lines 567-569: a block of the control point function itself.
SkipControlPointFunc ==
    /\ pc = "head"
    /\ \E e \in EntriesAt(Idx) :
        /\ e # Hole /\ e[1] = YK_NEW_CONTROL_POINT /\ e[1] \in DOMAIN aot.funcs
        /\ trace' = Read(Idx, e)
    /\ Idx' = Idx + 1
    /\ UNCHANGED <<pc, CurInstrIdx, NextCompletedBlock, LastCompletedBlocks,
                   ExpectUnmappable>>
    /\ HeadFrame

\* Lines 571-582: find the block, note the block completed before it.
EnterBlock ==
    /\ pc = "head"
    /\ \E e \in EntriesAt(Idx) :
        /\ e # Hole /\ e[1] \in DefinedFuncs
        /\ trace' = Read(Idx, e)
        /\ IF LastCompletedBlocks = <<>>
           THEN pc' = "fatal" /\ UNCHANGED <<LastCompletedBlocks, NextCompletedBlock>>
           ELSE /\ LastCompletedBlocks' = SetLast(LastCompletedBlocks, NextCompletedBlock)
                /\ NextCompletedBlock' = e
                /\ pc' = "body"
    /\ CurInstrIdx' = 0
    /\ UNCHANGED <<Idx, ExpectUnmappable>>
    /\ HeadFrame

\* Builder.CreateRet(V)
CreateRet(b, v) ==
    [b EXCEPT !.JITMod.body = Append(@, [n |-> b.NextInst, k |-> "ret", src |-> "",
                                         ops |-> <<v>>, idx |-> 0]),
              !.NextInst = @ + 1]

\* Lines 697-699: the trace is exhausted.
TraceExhausted ==
    /\ pc = "head"
    /\ Idx = Len(trace)
    /\ traceEnded' = TRUE
    /\ LET b == Finalise(CreateRet(B, VMap[Inst(ControlPointCallSite.id)]))
       IN  SetBuilder(b) /\ \E o \in Outcomes(b, "return") : Goto(b, o)
    /\ UNCHANGED <<trace, NextCompletedBlock>>

(* The loop over the instructions of a block (lines 582-694). *)

\* A faulty variant of the end of a block: the outer loop does not move on.
EndOfBlockStays ==
    /\ pc = "body"
    /\ CurInstrIdx >= Len(CurInsts)
    /\ pc' = "head"
    /\ CurInstrIdx' = 0
    /\ UNCHANGED <<aot, faddrs, trace, traceEnded, NextCompletedBlock, NextTraceIdx,
                   JITMod, TraceName, VMap, globalMappings, cloned_globals,
                   NewControlPointCall, InlinedCalls, ResumeAfter, RecCallDepth,
                   ExpectUnmappable, DeleteDeadOnFinalise, LastCompletedBlocks,
                   InsertValueMap, NextInst, returned, procVars, Idx>>
\* The loop condition CurInstrIdx < BB->size() fails.
EndOfBlock ==
    /\ pc = "body"
    /\ CurInstrIdx >= Len(CurInsts)
    /\ pc' = "head"
    /\ Idx' = Idx + 1
    /\ CurInstrIdx' = 0
    /\ UNCHANGED <<aot, faddrs, trace, traceEnded, NextCompletedBlock, NextTraceIdx,
                   JITMod, TraceName, VMap, globalMappings, cloned_globals,
                   NewControlPointCall, InlinedCalls, ResumeAfter, RecCallDepth,
                   ExpectUnmappable, DeleteDeadOnFinalise, LastCompletedBlocks,
                   InsertValueMap, NextInst, returned, procVars>>

\* Line 591: assert(I != BB->end()) after skipping ahead to the resume point.
ResumePastEnd ==
    /\ pc = "body"
    /\ CurInstrIdx < Len(CurInsts)
    /\ EffIdx >= Len(CurInsts)
    /\ Step(Fail(BR), "continue")

\* Lines 596-597
SkipDbg ==
    /\ AtInstr
    /\ CurI.k = "dbg"
    /\ Step(BR, "continue")

IsCallTo(Ins, name) ==
    Ins.k = "call" /\ HasCalledFunction(Ins) /\ CalledFunction(Ins) = name
IsDirectCall(Ins) ==
    /\ Ins.k = "call" /\ HasCalledFunction(Ins)
    /\ CalledFunction(Ins) \notin {YK_NEW_CONTROL_POINT, YKTRACE_STOP}
IsAsmCall(Ins) == Ins.k = "call" /\ Tag(CalledOperand(Ins)) = "asm"
SeenControlPoint == NewControlPointCall # NoVal

\* Lines 602-605: a call through a pointer or of inline asm, before the control
\* point.
SkipIndirectCall ==
    /\ AtInstr
    /\ CurI.k = "call" /\ ~HasCalledFunction(CurI)
    /\ ~SeenControlPoint
    /\ Step(BR, "continue")

\* AOTMod->getFunction(name): "" when there is none
GetFunction(name) == IF name \in DOMAIN aot.funcs THEN name ELSE ""

\* Lines 608-620: a call through a pointer; the callee is the function of the
\* next trace entry.
IndirectCall ==
    /\ AtInstr
    /\ CurI.k = "call" /\ IsIndirectCall(CurI)
    /\ SeenControlPoint
    /\ \/ \E e \in EntriesAt(Idx + 1) :
            /\ trace' = Read(Idx + 1, e)
            /\ traceEnded' = traceEnded
            /\ LET CF == IF e = Hole THEN "" ELSE GetFunction(e[1])
                   b == HandleCallInst(BR, CurI, CF, EffIdx)
               IN  SetBuilder(b) /\ \E o \in Outcomes(b, "break") : Goto(b, o)
       \/ \* InputTrace::operator[] past the end, which its comment calls
          \* undefined: assert(Idx < Len) ends the process, or the word
          \* behind FuncNames is read, which is null or names no function
          /\ Idx + 1 = Len(trace) /\ ~traceEnded
          /\ traceEnded' = TRUE
          /\ trace' = trace
          /\ LET b == FailUB(HandleCallInst(BR, CurI, "", EffIdx))
             IN  SetBuilder(b) /\ \E o \in Outcomes(b, "break") : Goto(b, o)
    /\ UNCHANGED NextCompletedBlock

\* Lines 621-623 and 629: the control point, met for the first time.
ControlPointFirst ==
    /\ AtInstr
    /\ IsCallTo(CurI, YK_NEW_CONTROL_POINT)
    /\ ~SeenControlPoint
    /\ Step([BR EXCEPT !.NewControlPointCall = Inst(CurI.id)], "continue")

\* Lines 624-628: the control point, met again.
ControlPointSecond ==
    /\ AtInstr
    /\ IsCallTo(CurI, YK_NEW_CONTROL_POINT)
    /\ SeenControlPoint
    /\ LET Agg == ArgOperands(CurI)[YK_CONTROL_POINT_ARG_IDX + 1]
       IN  IF ~MappedValueOK(BR, Agg) THEN Step(Fail(BR), "break")
           ELSE Step([BR EXCEPT !.VMap = Put(@, Inst(CurI.id), GetMappedValue(BR, Agg)),
                                !.ResumeAfter = << <<EffIdx, CurI>> >>],
                     "break")

\* A faulty variant of StopTracing: the marker is treated like any other call
\* of a declared function.
StopTracingAsCall ==
    /\ AtInstr
    /\ IsCallTo(CurI, YKTRACE_STOP)
    /\ Step(HandleCallInst(BR, CurI, CalledFunction(CurI), EffIdx), "break")

\* Lines 630-632: the call that stops tracing.
StopTracing ==
    /\ AtInstr
    /\ IsCallTo(CurI, YKTRACE_STOP)
    /\ Step(Finalise(BR), "return")

\* Lines 633-636: any other direct call after the control point.
DirectCall ==
    /\ AtInstr
    /\ IsDirectCall(CurI)
    /\ SeenControlPoint
    /\ Step(HandleCallInst(BR, CurI, CalledFunction(CurI), EffIdx), "break")

\* A faulty variant of the skip: the instruction is copied all the same.
CopyBeforeControlPoint ==
    /\ AtInstr
    /\ ~SeenControlPoint
    /\ CurI.k # "dbg"
    /\ CurI.k = "call" => IsDirectCall(CurI)
    /\ Step(CopyInstruction(BR, CurI), "continue")

\* Lines 641-642: nothing is copied before the control point.
SkipBeforeControlPoint ==
    /\ AtInstr
    /\ ~SeenControlPoint
    /\ CurI.k # "dbg"
    /\ CurI.k = "call" => IsDirectCall(CurI)
    /\ Step(BR, "continue")

\* The instructions that reach line 644: all but debug intrinsics and the
\* calls handled above.
PastCalls ==
    /\ AtInstr
    /\ SeenControlPoint
    /\ CurI.k # "dbg"
    /\ CurI.k = "call" => IsAsmCall(CurI)

\* Lines 644-658
IndirectBr ==
    /\ PastCalls
    /\ CurI.k = "indirectbr"
    /\ LET FirstOp == CurI.ops[1]
       IN  IF FirstOp \notin DOMAIN VMap THEN Step(Fail(BR), "continue")
           ELSE Step([BR EXCEPT !.DeleteDeadOnFinalise = Append(@, VMap[FirstOp])],
                     "continue")

\* Lines 660-663
BranchOrSwitch ==
    /\ PastCalls
    /\ CurI.k \in {"br", "switch"}
    /\ Step(BR, "continue")

\* Lines 665-668
Return ==
    /\ PastCalls
    /\ CurI.k = "ret"
    /\ Step(HandleReturnInst(BR, CurI), "break")

\* A faulty variant of Copied: a switch is not recognised as control flow.
CopiedWithSwitch(Ins) == Ins.k \notin {"indirectbr", "br", "ret"}

\* The instructions lines 644-668 let through.
Copied(Ins) == Ins.k \notin {"indirectbr", "br", "switch", "ret"}

\* Lines 670-673: inside a call that is not inlined.
SkipOutlined ==
    /\ PastCalls
    /\ Copied(CurI)
    /\ RecCallDepth > 0
    /\ Step(BR, "continue")

\* Lines 675-679
PHINode ==
    /\ PastCalls
    /\ CurI.k = "phi"
    /\ RecCallDepth = 0
    /\ IF LastCompletedBlocks = <<>> THEN Step(Fail(BR), "continue")
       ELSE Step(HandlePHINode(BR, CurI, NextCompletedBlock[1], Last(LastCompletedBlocks)),
                 "continue")

\* Lines 687-693: an extractvalue from the control point's aggregate stands for
\* the value that was inserted at its index.
RemapExtractValue(b, Ins) ==
    IF b.err # "" \/ Ins.k # "extractvalue" \/ Ins.aggTy # OutputStruct THEN b
    ELSE LET known == Ins.idx \in DOMAIN b.InsertValueMap
             IV == IF known THEN b.InsertValueMap[Ins.idx] ELSE NullPtr
         IN  [b EXCEPT !.InsertValueMap = IF known THEN @ ELSE Put(@, Ins.idx, NullPtr),
                       !.VMap = Put(@, IV, GetMappedValue(b, Inst(Ins.id)))]

\* Lines 683-693
CopyInst ==
    /\ PastCalls
    /\ Copied(CurI)
    /\ CurI.k # "phi"
    /\ RecCallDepth = 0
    /\ Step(RemapExtractValue(CopyInstruction(BR, CurI), CurI), "continue")

Next ==
    \/ CreateModuleInit
    \/ ConsumeHole
    \/ UnexpectedHole
    \/ UnknownFunction
    \/ SkipControlPointFunc
    \/ EnterBlock
    \/ TraceExhausted
    \/ EndOfBlock
    \/ ResumePastEnd
    \/ SkipDbg
    \/ SkipIndirectCall
    \/ IndirectCall
    \/ ControlPointFirst
    \/ ControlPointSecond
    \/ StopTracing
    \/ DirectCall
    \/ SkipBeforeControlPoint
    \/ IndirectBr
    \/ BranchOrSwitch
    \/ Return
    \/ SkipOutlined
    \/ PHINode
    \/ CopyInst

Spec == Init /\ [][Next]_vars

TypeOK == pc \in {"start", "head", "body", "done", "fatal"}

-----------------------------------------------------------------------------
(* Properties *)

Body == JITMod.body
InstNums(body) == {body[i].n : i \in 1..Len(body)}
AtStopMarker == AtInstr /\ IsCallTo(CurI, YKTRACE_STOP)
StoppedAtMarker == returned = "module" /\ ~traceEnded
ControlPointValue == VMap[Inst(ControlPointCallSite.id)]

\* C2: once the call that stops tracing is reached, nothing more is emitted:
\* the step that processes it and every step after it add no instruction to
\* the JIT module, and the walk is over.
C2_NoEmissionAfterStop ==
    [][(AtStopMarker \/ StoppedAtMarker) =>
            /\ InstNums(JITMod'.body) \subseteq InstNums(JITMod.body)
            /\ pc' \in {"done", "fatal"}]_vars

\* A compilation that ended at the stop marker of a block that goes on after it.
C2_Witness ==
    /\ StoppedAtMarker
    /\ Body # <<>>
    /\ \E i \in 1..Len(CurInsts) :
            /\ IsCallTo(CurInsts[i], YKTRACE_STOP)
            /\ i < Len(CurInsts)
            /\ \A j \in 1..Len(Body) : Body[j].src # CurInsts[i + 1].id

\* C3: whenever a module is returned, the compiled-trace function ends in a
\* return of the value mapped for the control point call, whether the
\* compilation ended at the stop marker or at the end of the trace.
C3_EndsInReturn ==
    returned = "module" =>
        /\ Body # <<>>
        /\ Last(Body).k = "ret"
        /\ Last(Body).ops = <<ControlPointValue>>

TraceFuncs == {f \in DOMAIN JITMod.funcs : HasTracePrefix(f)}

\* C4: from the creation of the compiled-trace function on, the JIT module
\* holds exactly one function with the trace prefix; it has internal linkage,
\* the C calling convention and one basic block; every other function is an
\* external declaration without a body.
C4_SingleCompiledFunction ==
    pc # "start" =>
        /\ Cardinality(TraceFuncs) = 1
        /\ TraceName \in TraceFuncs
        /\ \A f \in DOMAIN JITMod.funcs :
            IF f \in TraceFuncs
            THEN /\ JITMod.funcs[f].linkage = "internal"
                 /\ JITMod.funcs[f].cc = "C"
                 /\ JITMod.funcs[f].nblocks = 1
                 /\ ~JITMod.funcs[f].decl
            ELSE /\ JITMod.funcs[f].decl
                 /\ JITMod.funcs[f].nblocks = 0
                 /\ JITMod.funcs[f].linkage = "external"

\* A returned module that declares other functions beside the compiled trace.
C4_Witness ==
    /\ returned = "module"
    /\ Cardinality(DOMAIN JITMod.funcs) >= 2
    /\ Body # <<>>

C6_NoControlFlowEmitted ==
    \A i \in 1..Len(Body) :
        /\ Body[i].k \notin {"br", "switch", "indirectbr", "phi"}
        /\ Body[i].k = "ret" => (i = Len(Body) /\ Body[i].src = "")

\* A returned module of a trace that went through a switch and an indirect
\* branch.
C6_Witness ==
    /\ returned = "module"
    /\ \E i \in 1..Len(trace) : trace[i] = <<"main", 2>> /\ aot.name = "ibr"
    /\ DeleteDeadOnFinalise # <<>>
    /\ Last(Body).k = "ret"

\* The callee a frame's call names, "" for a call through a pointer.
FrameCallee(t) == IF HasCalledFunction(t[2]) THEN CalledFunction(t[2]) ELSE ""
CalleeInFlight(F) ==
    \E i \in 1..Len(InlinedCalls) : FrameCallee(InlinedCalls[i]) = F
\* The callee of the call being processed: the one it names, or the function
\* of the next trace entry.
StepCallee ==
    IF HasCalledFunction(CurI) THEN CalledFunction(CurI)
    ELSE IF Len(trace') > Idx + 1 /\ trace'[Idx + 2] # Hole THEN trace'[Idx + 2][1]
    ELSE ""
RecursiveCallStep ==
    /\ AtInstr
    /\ SeenControlPoint
    /\ RecCallDepth = 0
    /\ IsDirectCall(CurI) \/ (CurI.k = "call" /\ IsIndirectCall(CurI))
    /\ StepCallee \in DefinedFuncs
    /\ CalleeInFlight(StepCallee)
\* A frame whose callee has an older frame below it: an outlined call that has
\* not returned yet.
OutlinedInFlight ==
    \E i, j \in 1..Len(InlinedCalls) :
        /\ i < j
        /\ FrameCallee(InlinedCalls[i]) # ""
        /\ FrameCallee(InlinedCalls[i]) = FrameCallee(InlinedCalls[j])

OutlinedCallees ==
    {f \in DefinedFuncs : \E i \in 1..Len(Body) :
        Body[i].k = "call" /\ CalledOperand(Body[i]) = JFn(f)}

\* C9: when a module is returned, every function whose recursive call was
\* outlined is bound in the global mappings to the address the function
\* address table holds for its name, also when the function had been declared
\* in the JIT module before the recursive call was met.
C9_OutlinedCalleesBound ==
    returned = "module" =>
        \A f \in OutlinedCallees :
            /\ f \in DOMAIN globalMappings
            /\ globalMappings[f] = FuncAddrsLookup(faddrs, f)

-----------------------------------------------------------------------------
(* What a run computes, as symbolic terms.  Both the AOT program along the
   traced path and the compiled trace are run on the same symbolic input: IN
   is the aggregate the control point returns, a load is tagged with the
   number of memory effects before it, and the observations are the stores,
   the calls that are not inlined, and the aggregate returned at the end. *)

RECURSIVE Join(_)
Join(ss) ==
    IF ss = <<>> THEN ""
    ELSE IF Len(ss) = 1 THEN ss[1]
    ELSE ss[1] \o "," \o Join(Tail(ss))
Term(op, args) == op \o "(" \o Join(args) \o ")"

\* What one instruction of kind k does with operand terms a.
ExecInst(k, idx, a, ver) ==
    IF k = "store" THEN [val |-> "", ev |-> Term("store", a), bump |-> 1]
    ELSE IF k = "load" THEN
        [val |-> Term("load", a) \o "@" \o ToString(ver), ev |-> "", bump |-> 0]
    ELSE IF k = "call" THEN
        [val |-> "res" \o ToString(ver), ev |-> Term("call", a), bump |-> 1]
    ELSE IF k = "ret" THEN [val |-> "", ev |-> Term("ret", a), bump |-> 0]
    ELSE IF k \in {"insertvalue", "extractvalue"} THEN
        [val |-> Term(k, Append(a, ToString(idx))), ev |-> "", bump |-> 0]
    ELSE [val |-> Term(k, a), ev |-> "", bump |-> 0]

\* A constant of either module.  A global or function of the AOT module is
\* not a value the JIT module can use.
ConstTerm(v, jit) ==
    IF Tag(v) = "const" THEN NameOf(v)
    ELSE IF Tag(v) \in {"jgv", "jfn"} THEN "@" \o NameOf(v)
    ELSE IF Tag(v) \in {"gv", "fn"} THEN
        (IF jit THEN "aot@" ELSE "@") \o NameOf(v)
    ELSE IF Tag(v) = "asm" THEN "asm_" \o NameOf(v)
    ELSE IF Tag(v) = "null" THEN "null"
    ELSE "?"
CExprTerm(name, ops, jit) ==
    Term("ce_" \o name, [i \in 1..Len(ops) |-> ConstTerm(ops[i], jit)])

\* The field of the control point's aggregate that holds v when the control
\* point is called: the insertvalue nearest to the call wins.
RECURSIVE AggIndexOf(_, _, _)
AggIndexOf(OutS, v, seen) ==
    IF ~IsInst(OutS, "insertvalue") THEN 0
    ELSE LET IVI == InstById(NameOf(OutS))
         IN  IF IVI.ops[2] = v /\ IVI.idx \notin seen THEN IVI.idx + 1
             ELSE AggIndexOf(IVI.ops[1], v, seen \cup {IVI.idx})
\* A value computed before the control point.
PreValue(v) ==
    LET i == AggIndexOf(ArgOperands(ControlPointCallSite)[2], v, {})
    IN  IF i > 0 THEN Term("extractvalue", <<"IN", ToString(i - 1)>>)
        ELSE Term("pre", <<NameOf(v)>>)

RefEval(env, v) ==
    IF Tag(v) \in {"inst", "arg"} THEN (IF v \in DOMAIN env THEN env[v] ELSE PreValue(v))
    ELSE IF Tag(v) = "ce" THEN CExprTerm(NameOf(v), aot.cexprs[NameOf(v)], FALSE)
    ELSE ConstTerm(v, FALSE)
RefEvalAll(env, ops) == [i \in 1..Len(ops) |-> RefEval(env, ops[i])]

(* The compiled trace *)
JitEval(env, v) ==
    IF Tag(v) = "jarg" THEN "IN"
    ELSE IF Tag(v) = "jinst" THEN
        (IF NumOf(v) \in DOMAIN env THEN env[NumOf(v)] ELSE "erased")
    ELSE IF Tag(v) = "jce" THEN CExprTerm(NameOf(v), JITMod.cexprs[NameOf(v)], TRUE)
    ELSE IF Tag(v) = "ce" THEN CExprTerm(NameOf(v), aot.cexprs[NameOf(v)], TRUE)
    ELSE IF Tag(v) \in {"inst", "arg"} THEN "aot%" \o NameOf(v)
    ELSE ConstTerm(v, TRUE)

RECURSIVE JitRun(_, _, _, _)
JitRun(body, env, obs, ver) ==
    IF body = <<>> THEN obs
    ELSE LET Ins == Head(body)
             x == ExecInst(Ins.k, Ins.idx,
                           [i \in 1..Len(Ins.ops) |-> JitEval(env, Ins.ops[i])], ver)
         IN  JitRun(Tail(body),
                    [n \in DOMAIN env \cup {Ins.n} |-> IF n = Ins.n THEN x.val ELSE env[n]],
                    IF x.ev = "" THEN obs ELSE Append(obs, x.ev),
                    ver + x.bump)
JitObs == JitRun(Body, [n \in {} |-> ""], <<>>, 0)

(* The AOT program along the trace.  A frame is a function activation: its
   block, the index of its next instruction and its values; `prev` the block that ran before `blk` in it, `named` is the callee the call that made it names ("" for the
   frame of the control point and for a call through a pointer), `retv` the
   value an outlined call yields.  `want` says what the next trace entry must
   be; a trace that does not fit is "bad", a trace that reaches the control
   point again or the stop marker is at its "end". *)

RefFrame(fn, blk, pos, env, named, retv) ==
    [fn |-> fn, blk |-> blk, pos |-> pos, prev |-> NullBB, env |-> env,
     named |-> named, retv |-> retv]
RefInit ==
    [status |-> "run", want |-> "start", frames |-> <<>>, obs |-> <<>>, ver |-> 0,
     seen |-> FALSE, silentAt |-> 0]
RefTop(R) == Last(R.frames)
RefInsts(R) == BlockAt(RefTop(R).fn, RefTop(R).blk).insts
RefBad(R) == [R EXCEPT !.status = "bad"]
RefSetTop(R, F) == [R EXCEPT !.frames = SetLast(@, F)]
\* The effect of an instruction that is not control flow: its value, and its
\* observation unless it runs inside an outlined call.
RefEffect(R, Ins) ==
    LET F == RefTop(R)
        x == ExecInst(Ins.k, Ins.idx, RefEvalAll(F.env, Ins.ops), R.ver)
        quiet == R.silentAt > 0
    IN  [RefSetTop(R, [F EXCEPT !.env = Put(@, Inst(Ins.id), x.val), !.pos = @ + 1])
            EXCEPT !.obs = IF quiet \/ x.ev = "" THEN @ ELSE Append(@, x.ev),
                   !.ver = IF quiet THEN @ ELSE @ + x.bump]
RefEnd(R, v) ==
    [R EXCEPT !.status = "end", !.obs = Append(@, Term("ret", <<v>>))]

RECURSIVE RefRun(_)
RefRun(R) ==
    LET F == RefTop(R)
        Ins == RefInsts(R)[F.pos]
        next == RefSetTop(R, [F EXCEPT !.pos = @ + 1])
    IN  IF R.status # "run" THEN R
        ELSE IF F.pos > Len(RefInsts(R)) THEN RefBad(R)
        ELSE IF Ins.k = "dbg" THEN RefRun(next)
        ELSE IF Ins.k \in {"br", "switch", "indirectbr"} THEN [R EXCEPT !.want = "fresh"]
        ELSE IF Ins.k = "ret" THEN
            \* the outermost function returns: the run is not followed further
            IF Len(R.frames) = 1 THEN [RefBad(R) EXCEPT !.want = "caller"]
            ELSE LET n == Len(R.frames)
                     Caller == R.frames[n - 1]
                     CI == BlockAt(Caller.fn, Caller.blk).insts[Caller.pos]
                     v == IF R.silentAt = n THEN F.retv
                          ELSE IF Ins.ops # <<>> THEN RefEval(F.env, Ins.ops[1])
                          ELSE "void"
                 IN  [R EXCEPT
                        !.frames = SetLast(Front(@),
                            [Caller EXCEPT !.env = Put(@, Inst(CI.id), v), !.pos = @ + 1]),
                        !.silentAt = IF @ = n THEN 0 ELSE @,
                        !.want = "resume"]
        ELSE IF Ins.k = "phi" THEN
            IF ~HasIncoming(Ins, F.fn, F.prev) THEN RefBad(R)
            ELSE RefRun(RefSetTop(R, [F EXCEPT
                    !.env = Put(@, Inst(Ins.id),
                                RefEval(F.env, IncomingValueForBlock(Ins, F.prev))),
                    !.pos = @ + 1]))
        ELSE IF Ins.k # "call" THEN RefRun(RefEffect(R, Ins))
        ELSE IF IsCallTo(Ins, YK_NEW_CONTROL_POINT) THEN
            IF ~R.seen
            THEN RefRun([RefSetTop(R, [F EXCEPT !.env = Put(@, Inst(Ins.id), "IN"),
                                                !.pos = @ + 1])
                            EXCEPT !.seen = TRUE])
            ELSE RefEnd(R, RefEval(F.env, ArgOperands(Ins)[YK_CONTROL_POINT_ARG_IDX + 1]))
        ELSE IF IsCallTo(Ins, YKTRACE_STOP) THEN
            RefEnd(R, RefEval(F.env, Inst(ControlPointCallSite.id)))
        ELSE IF IsAsmCall(Ins) THEN RefRun(RefEffect(R, Ins))
        ELSE IF ~HasCalledFunction(Ins) THEN [R EXCEPT !.want = "icallee"]
        ELSE IF CalledFunction(Ins) \in DefinedFuncs THEN [R EXCEPT !.want = "callee"]
        ELSE [RefEffect(R, Ins) EXCEPT !.want = "xresume"]

\* The call the top frame is at enters g.  A call of a function that a frame
\* in flight was called as is not followed: it is an observation, and what
\* its body does is not.
RefCall(R, g) ==
    LET F == RefTop(R)
        CI == RefInsts(R)[F.pos]
        actuals == RefEvalAll(F.env, ArgOperands(CI))
        named == IF HasCalledFunction(CI) THEN g ELSE ""
        outline == R.silentAt = 0 /\ \E i \in 1..Len(R.frames) : R.frames[i].named = g
        x == ExecInst("call", 0, RefEvalAll(F.env, CI.ops), R.ver)
        env == [a \in {Arg(g, i - 1) : i \in 1..Len(actuals)} |-> actuals[NumOf(a) + 1]]
    IN  IF outline
        THEN [R EXCEPT !.frames = Append(@, RefFrame(g, 0, 1, env, named, x.val)),
                       !.obs = Append(@, x.ev),
                       !.ver = @ + 1,
                       !.silentAt = Len(R.frames) + 1]
        ELSE [R EXCEPT !.frames = Append(@, RefFrame(g, 0, 1, env, named, ""))]

IsControlPointEntry(e) == e # Hole /\ e[1] = YK_NEW_CONTROL_POINT
ControlPointIndex(e) ==
    CHOOSE i \in 1..Len(BlockAt(e[1], e[2]).insts) :
        IsControlPointCall(BlockAt(e[1], e[2]).insts[i])

\* The next trace entry is e.
RefEnter(R, e) ==
    IF R.status = "bad" THEN R
    ELSE IF R.status = "end" \/ R.want = "start" THEN
        IF IsControlPointEntry(e) THEN R
        ELSE IF R.status = "end" THEN RefBad(R)
        ELSE IF e \in AllBlocks /\ (\E x \in CallsIn(e) : IsControlPointCall(x))
        THEN RefRun([R EXCEPT
                !.frames = <<RefFrame(e[1], e[2], ControlPointIndex(e), EmptyMap, "", "")>>])
        ELSE RefBad(R)
    ELSE LET F == RefTop(R)
         IN  IF R.want = "fresh" THEN
                 IF e # Hole /\ e[1] = F.fn /\ e[2] \in BlockAt(F.fn, F.blk).targets
                 THEN RefRun(RefSetTop(R, [F EXCEPT !.prev = <<F.fn, F.blk>>, !.blk = e[2], !.pos = 1]))
                 ELSE RefBad(R)
             ELSE IF R.want = "resume" THEN
                 IF e = <<F.fn, F.blk>> THEN RefRun(R) ELSE RefBad(R)
             ELSE IF R.want = "xresume" THEN
                 IF e = Hole THEN [R EXCEPT !.want = "resume"]
                 ELSE IF e = <<F.fn, F.blk>> THEN RefRun(R)
                 ELSE RefBad(R)
             ELSE IF R.want = "callee" THEN
                 IF e = <<CalledFunction(RefInsts(R)[F.pos]), 0>>
                 THEN RefRun(RefCall(R, e[1]))
                 ELSE RefBad(R)
             ELSE \* "icallee": a call through a pointer
                 IF e = Hole
                 THEN [RefEffect(R, RefInsts(R)[F.pos]) EXCEPT !.want = "resume"]
                 ELSE IF e[1] \in DefinedFuncs /\ e[2] = 0 THEN RefRun(RefCall(R, e[1]))
                 ELSE RefBad(R)

RECURSIVE RefWalk(_, _, _)
RefWalk(R, t, i) ==
    IF i > Len(t) THEN R ELSE RefWalk(RefEnter(R, t[i]), t, i + 1)
\* The run along the entries the compiler has read.
Ref == RefWalk(RefInit, trace, 1)

-----------------------------------------------------------------------------
(* Properties that compare the compiler with the run of the AOT program. *)

\* C1: when the trace runs from the control point to the stop marker or to
\* the control point met again, and a module is returned for it, the compiled
\* trace makes the observations the AOT program makes along the traced path:
\* the same stores and calls that are not inlined, in the same order, and the
\* same aggregate returned.
C1_RoundTripEquivalence ==
    (returned = "module" /\ Ref.status = "end") => JitObs = Ref.obs

\* The run along the entries before the one being compiled.
RefBefore == RefWalk(RefInit, SubSeq(trace, 1, Idx), 1)
\* The block of the same frame that ran before the block being compiled.
EnteredThrough == <<RefTop(RefBefore).fn, RefTop(RefBefore).blk>>
\* map(v) of the value-mapping rules: the operand is handled, then looked up.
MapOperand(v) == GetMappedValue(HandleOperand(BR, v), v)
\* A PHI is about to be processed after a branch of its own frame took the
\* trace into its block.
PHIEntered ==
    /\ PastCalls
    /\ CurI.k = "phi"
    /\ RecCallDepth = 0
    /\ Idx >= 1 /\ Idx < Len(trace)
    /\ RefBefore.status = "run" /\ RefBefore.want = "fresh"
    /\ EnteredThrough[1] = NextCompletedBlock[1]
    /\ NextCompletedBlock[2] \in BlockAt(EnteredThrough[1], EnteredThrough[2]).targets
    /\ HasIncoming(CurI, NextCompletedBlock[1], EnteredThrough)
    /\ HandleOperand(BR, IncomingValueForBlock(CurI, EnteredThrough)).err = ""

\* C7: the step that processes a PHI entered through block b2 of the same
\* frame leaves the value map holding map(v2) for the PHI, v2 being the
\* incoming value for b2, and adds no instruction to the JIT module.
C7_PHIResolution ==
    [][PHIEntered =>
        /\ pc' # "fatal"
        /\ Inst(CurI.id) \in DOMAIN VMap'
        /\ VMap'[Inst(CurI.id)] = MapOperand(IncomingValueForBlock(CurI, EnteredThrough))
        /\ JITMod'.body = JITMod.body]_vars

\* The operands of the compiled trace and of its constant expressions.
JITOperands ==
    UNION {SeqToSet(Body[i].ops) : i \in 1..Len(Body)}
    \cup UNION {SeqToSet(JITMod.cexprs[c]) : c \in DOMAIN JITMod.cexprs}
ConstantGlobals == {g \in DOMAIN aot.globals : aot.globals[g].const}
\* The operands that stand for the AOT global g.
ReferencesTo(g) == {v \in JITOperands : v \in {GV(g), JGV(g)}}

\* C10: in a returned module, every reference to a constant AOT global is a
\* reference to its one counterpart in the JIT module, and the counterpart
\* carries the mapped initialiser of the AOT global.
C10_ConstGlobalsCopiedOnce ==
    returned = "module" =>
        \A g \in ConstantGlobals :
            ReferencesTo(g) # {} =>
                /\ ReferencesTo(g) = {JGV(g)}
                /\ g \in DOMAIN JITMod.globals
                /\ JITMod.globals[g].hasInit = aot.globals[g].hasInit
                /\ JITMod.globals[g].init = MapValue(B, aot.globals[g].init)

-----------------------------------------------------------------------------
(* The trace-index counter shared by the threads that compile (lines 119-125
   and 376-391).  Each thread runs createJITFunc again and again; the
   fetch-and-add is one atomic step, the assertion that follows it and the
   creation of the function are steps of their own.  uint64_t is scaled down
   to IdxBits bits.  A failed assertion ends the process: no thread takes a
   step after it. *)
IdxBits == 2
NumThreads == 2
MaxCompilations == 6
RECURSIVE Pow2(_)
Pow2(n) == IF n = 0 THEN 1 ELSE 2 * Pow2(n - 1)
\* numeric_limits<uint64_t>::max()
TraceIdxMax == Pow2(IdxBits) - 1
Threads == 1..NumThreads
\* string(TRACE_FUNC_PREFIX) + to_string(TraceIdx)
TraceNameOf(n) == TRACE_FUNC_PREFIX \o ToString(n)

builderVars == <<aot, faddrs, trace, traceEnded, pc, Idx, CurInstrIdx,
                 NextCompletedBlock, JITMod, TraceName, VMap, globalMappings,
                 cloned_globals, NewControlPointCall, InlinedCalls, ResumeAfter,
                 RecCallDepth, ExpectUnmappable, DeleteDeadOnFinalise,
                 LastCompletedBlocks, InsertValueMap, NextInst, returned>>
BuilderIdle ==
    /\ aot = PLoop /\ trace = <<>> /\ traceEnded = FALSE
    /\ pc = "start" /\ Idx = 0 /\ CurInstrIdx = 0 /\ NextCompletedBlock = NullBB
    /\ JITMod = EmptyModule /\ TraceName = "" /\ VMap = EmptyMap
    /\ globalMappings = EmptyMap /\ cloned_globals = <<>>
    /\ NewControlPointCall = NoVal /\ InlinedCalls = <<>> /\ ResumeAfter = <<>>
    /\ RecCallDepth = 0 /\ ExpectUnmappable = FALSE /\ DeleteDeadOnFinalise = <<>>
    /\ LastCompletedBlocks = <<>> /\ InsertValueMap = EmptyMap /\ NextInst = 0
    /\ returned = "none"

MapIdle == Map = EmptyMap /\ MapI = 0 /\ CFName = "" /\ FoundAddr = 0
PrinterIdle == YKD_PRINT_IR = <<>> /\ Env = <<>> /\ toPrint = {} /\ dip = "none"

InitThreads ==
    /\ BuilderIdle /\ MapIdle /\ PrinterIdle /\ AOTIdle
    /\ faddrs = <<>>
    /\ NextTraceIdx = 0
    /\ threads = [t \in Threads |-> [at |-> "idle", TraceIdx |-> 0]]
    /\ functions = <<>>

Aborted == \E t \in Threads : threads[t].at = "aborted"
Fetches == Len(functions) + Cardinality({t \in Threads : threads[t].at # "idle"})

\* Line 122: NextTraceIdx.fetch_add(1, memory_order_relaxed)
FetchAdd(t) ==
    /\ ~Aborted
    /\ threads[t].at = "idle"
    /\ Fetches < MaxCompilations
    /\ threads' = [threads EXCEPT ![t] = [at |-> "fetched", TraceIdx |-> NextTraceIdx]]
    /\ NextTraceIdx' = (NextTraceIdx + 1) % Pow2(IdxBits)
    /\ UNCHANGED <<aotVars, builderVars, functions, mapVars, printerVars>>

\* Line 123: assert(TraceIdx != numeric_limits<uint64_t>::max())
AssertTraceIdx(t) ==
    /\ ~Aborted
    /\ threads[t].at = "fetched"
    /\ threads' = [threads EXCEPT ![t].at =
                      IF threads[t].TraceIdx = TraceIdxMax THEN "aborted" ELSE "issued"]
    /\ UNCHANGED <<aotVars, builderVars, NextTraceIdx, functions, mapVars, printerVars>>

\* Lines 379-388: the function named after the index is created.
CreateFunction(t) ==
    /\ ~Aborted
    /\ threads[t].at = "issued"
    /\ functions' = Append(functions, TraceNameOf(threads[t].TraceIdx))
    /\ threads' = [threads EXCEPT ![t].at = "idle"]
    /\ UNCHANGED <<aotVars, builderVars, NextTraceIdx, mapVars, printerVars>>

NextThreads ==
    \E t \in Threads : FetchAdd(t) \/ AssertTraceIdx(t) \/ CreateFunction(t)
SpecThreads == InitThreads /\ [][NextThreads]_vars

\* C11: whatever the interleaving of the compiling threads, no two
\* compiled-trace functions ever have the same name.
C11_UniqueTraceNames ==
    \A i, j \in 1..Len(functions) : i # j => functions[i] # functions[j]

-----------------------------------------------------------------------------
(* Holes in the trace *)

\* The step reads a hole as entry Idx of the trace.
HoleMet == pc = "head" /\ Idx < Len(trace') /\ trace'[Idx + 1] = Hole
HoleConsumed == HoleMet /\ pc' # "fatal"

\* C12: a hole met while ExpectUnmappable is set clears the flag, emits
\* nothing and takes the walk to the next entry; a hole met while the flag is
\* clear is fatal, and no module is returned.
C12_HoleHandling ==
    [][HoleMet =>
        IF ExpectUnmappable
        THEN /\ ~ExpectUnmappable'
             /\ JITMod' = JITMod /\ VMap' = VMap
             /\ pc' = "head" /\ Idx' = Idx + 1
        ELSE pc' = "fatal" /\ returned' = "none"]_vars
\* A hole has been consumed in the middle of a trace that emitted code.
C12_Witness ==
    /\ pc = "head" /\ Idx >= 2 /\ Idx <= Len(trace)
    /\ trace[Idx] = Hole
    /\ ~ExpectUnmappable
    /\ Len(Body) > 0

\* The call that ResumeAfter holds is a call to code without IR in block e.
ResumesExternalCallIn(e) ==
    /\ ResumeAfter # <<>>
    /\ e # Hole /\ e \in AllBlocks
    /\ LET CI == ResumeAfter[1][2]
       IN  /\ CI \in CallsIn(e)
           /\ IsExternalCall(CI) \/ IsIndirectCall(CI)

\* C13: a hole is consumed only as the entry right after the block in which
\* a call to a function without IR was processed.
C13_HoleOnlyAfterExternalCall ==
    [][HoleConsumed => Idx >= 1 /\ ResumesExternalCallIn(trace[Idx])]_vars

-----------------------------------------------------------------------------
(* Malformed traces *)

\* C14: a trace of length zero ends the compilation in a fatal error, and no
\* module is returned for it.
C14_EmptyTraceFatal ==
    (traceEnded /\ trace = <<>>) => (pc = "fatal" /\ returned = "none")

\* C15: a module is returned only for a trace in which a block reached the
\* call of the control point.
C15_MissingStartMarkerFatal ==
    returned = "module" => SeenControlPoint

\* C16: a module that holds an outlined call is returned only when the
\* function-address table has an entry for the callee; without one the
\* compilation ends in a fatal error.
C16_MissingAddressFatal ==
    returned = "module" =>
        \A f \in OutlinedCallees : FuncAddrsLookup(faddrs, f) # 0

\* An operand of Ins is an alloca of the AOT module that the value map does
\* not hold.
HasUnmappedAlloca(Ins, ops) ==
    \E i \in 1..Len(ops) : IsInst(ops[i], "alloca") /\ ops[i] \notin DOMAIN VMap
\* The instruction the walk is at is about to be cloned, or is a call about to
\* be inlined, and an operand it will handle is such an alloca.
ClonesUnmappedAlloca ==
    /\ AtInstr
    /\ SeenControlPoint
    /\ RecCallDepth = 0
    /\ \/ /\ CurI.k \notin {"dbg", "call", "br", "switch", "indirectbr", "ret", "phi"}
          /\ HasUnmappedAlloca(CurI, CurI.ops)
       \/ /\ CurI.k = "call"
          /\ ~IsCallTo(CurI, YK_NEW_CONTROL_POINT) /\ ~IsCallTo(CurI, YKTRACE_STOP)
          /\ HasUnmappedAlloca(CurI, ArgOperands(CurI))
          /\ IsAsmCall(CurI) \/ HasCalledFunction(CurI)

-----------------------------------------------------------------------------
(* The function-address table (lines 187-205): the constructor inserts the
   pairs of the two input arrays one by one, then names are looked up. *)
MaxFAddrLen == 3
FAddrNames == {"f", "g"}
FAddrValues == {11, 12}
FAddrArrays ==
    UNION {[1..n -> FAddrNames \X FAddrValues] : n \in 0..MaxFAddrLen}

NoThreads == threads = <<>> /\ functions = <<>> /\ NextTraceIdx = 0

InitFuncAddrs ==
    /\ BuilderIdle /\ NoThreads /\ PrinterIdle /\ AOTIdle
    /\ faddrs \in FAddrArrays
    /\ MapIdle

\* Lines 192-194: Map.insert({FuncNames[I], VAddrs[I]}), which leaves the map
\* as it is when it holds the key.
MapInsert(m, key, val) == IF key \in DOMAIN m THEN m ELSE Put(m, key, val)
\* Lines 199-204: FuncAddrs::operator[]
MapLookup(m, FuncName) == IF FuncName \in DOMAIN m THEN m[FuncName] ELSE 0

FuncAddrsInsert ==
    /\ MapI < Len(faddrs)
    /\ Map' = MapInsert(Map, faddrs[MapI + 1][1], faddrs[MapI + 1][2])
    /\ MapI' = MapI + 1
    /\ UNCHANGED <<aotVars, builderVars, NextTraceIdx, threads, functions, CFName, FoundAddr,
                   printerVars>>

\* Line 297: void *FAddr = FAddrs[CFName.data()], on the finished table.
FuncAddrsIndex ==
    /\ MapI = Len(faddrs)
    /\ \E name \in FAddrNames \cup {"h"} :
        /\ CFName' = name
        /\ FoundAddr' = MapLookup(Map, name)
    /\ UNCHANGED <<aotVars, builderVars, NextTraceIdx, threads, functions, Map, MapI,
                   printerVars>>

NextFuncAddrs == FuncAddrsInsert \/ FuncAddrsIndex
SpecFuncAddrs == InitFuncAddrs /\ [][NextFuncAddrs]_vars

Occurrences(name) == {i \in 1..Len(faddrs) : faddrs[i][1] = name}
Maximum(S) == CHOOSE x \in S : \A y \in S : y <= x

\* C18: a lookup returns the address that the last occurrence of the name in
\* the input arrays holds, and nothing for a name that does not occur.
C18_LastWriterWins ==
    CFName # "" =>
        FoundAddr = IF Occurrences(CFName) = {} THEN 0
                ELSE faddrs[Maximum(Occurrences(CFName))][2]

-----------------------------------------------------------------------------
(* Calls of functions without IR *)

\* The walk is at a direct call, after the control point and outside an
\* outlined call, of a function the module only declares (the control point
\* and the stop marker apart), and the arguments can be handled.
ExternalCallStep ==
    /\ AtInstr
    /\ SeenControlPoint
    /\ RecCallDepth = 0
    /\ CurI.k = "call"
    /\ IsExternalCall(CurI)
    /\ ~IsCallTo(CurI, YKTRACE_STOP)
    /\ HandleOperands(BR, ArgOperands(CurI)).err = ""
DeclaredExternal(m, F) ==
    F \in DOMAIN m.funcs /\ m.funcs[F].decl /\ m.funcs[F].linkage = "external"

\* C19: the step of such a call adds exactly one instruction, a call of the
\* callee's declaration in the JIT module; it pushes no frame, sets
\* ExpectUnmappable and sets ResumeAfter to the call; the callee is declared
\* after it, and a callee already declared is not declared again.
C19_ExternalCall ==
    [][ExternalCallStep =>
        LET CF == CalledFunction(CurI)
        IN  /\ pc' # "fatal"
            /\ Len(JITMod'.body) = Len(JITMod.body) + 1
            /\ SubSeq(JITMod'.body, 1, Len(JITMod.body)) = JITMod.body
            /\ Last(JITMod'.body).k = "call"
            /\ Last(JITMod'.body).src = CurI.id
            /\ CalledOperand(Last(JITMod'.body)) = JFn(CF)
            /\ InlinedCalls' = InlinedCalls
            /\ LastCompletedBlocks' = LastCompletedBlocks
            /\ ExpectUnmappable'
            /\ ResumeAfter' = << <<EffIdx, CurI>> >>
            /\ DeclaredExternal(JITMod', CF)
            /\ DOMAIN JITMod.funcs \subseteq DOMAIN JITMod'.funcs
            /\ Cardinality(DOMAIN JITMod'.funcs) =
                 Cardinality(DOMAIN JITMod.funcs \cup {CF})]_vars
\* The second call of a function whose address had been stored before has
\* been processed.
C19_Witness ==
    /\ aot.name = "exttwice"
    /\ pc = "head"
    /\ ExpectUnmappable
    /\ ResumeAfter # <<>> /\ ResumeAfter[1][2].id = "e2"
    /\ Cardinality({i \in 1..Len(Body) : Body[i].k = "call"}) = 2
    /\ DeclaredExternal(JITMod, "putc")

-----------------------------------------------------------------------------
(* DebugIRPrinter: the parsing of YKD_PRINT_IR *)

\* The value of the environment variable is held as the sequence of its
\* comma-separated fields: <<>> is the unset variable (getenv returns NULL),
\* <<"">> the empty string.
MaxTokens == 2
PrintIRTokens == {"aot", "jit-pre-opt", "jit-post-opt", "jit-pre-opt-sbs", "jit", ""}
PrintIRValues == UNION {[1..n -> PrintIRTokens] : n \in 0..MaxTokens}

InitPrinter ==
    /\ BuilderIdle /\ NoThreads /\ MapIdle /\ AOTIdle
    /\ faddrs = <<>>
    /\ YKD_PRINT_IR \in PrintIRValues
    /\ Env = <<>> /\ toPrint = {} /\ dip = "none"

\* Line 919, at the construction of the printer that each compilation makes
\* (line 1046): char *Env = std::getenv("YKD_PRINT_IR").
Getenv ==
    /\ dip \in {"none", "ready"}
    /\ Env' = YKD_PRINT_IR
    /\ toPrint' = {}
    /\ dip' = "loop"
    /\ UNCHANGED <<aotVars, builderVars, NextTraceIdx, threads, functions, mapVars,
                   YKD_PRINT_IR>>

\* Lines 921-929, one iteration: strsep returns the field at Env, writes a NUL
\* over the comma that ends it (so that the variable's value now ends there)
\* and moves Env past it, or to NULL after the last field.
Strsep ==
    /\ dip = "loop" /\ Env # <<>>
    /\ LET Val == Head(Env)
       IN  /\ Env' = Tail(Env)
           /\ YKD_PRINT_IR' = <<Head(YKD_PRINT_IR)>>
           /\ IF Val = "aot" THEN toPrint' = toPrint \cup {"AOT"} /\ dip' = dip
              ELSE IF Val = "jit-pre-opt"
                   THEN toPrint' = toPrint \cup {"JITPreOpt"} /\ dip' = dip
              ELSE IF Val = "jit-post-opt"
                   THEN toPrint' = toPrint \cup {"JITPostOpt"} /\ dip' = dip
              ELSE toPrint' = toPrint /\ dip' = "fatal"
    /\ UNCHANGED <<aotVars, builderVars, NextTraceIdx, threads, functions, mapVars>>

\* Line 921: strsep returns nullptr, the constructor returns.
StrsepNull ==
    /\ dip = "loop" /\ Env = <<>>
    /\ dip' = "ready"
    /\ UNCHANGED <<aotVars, builderVars, NextTraceIdx, threads, functions, mapVars,
                   YKD_PRINT_IR, Env, toPrint>>

NextPrinter == Getenv \/ Strsep \/ StrsepNull
SpecPrinter == InitPrinter /\ [][NextPrinter]_vars

\* C20: a field that is aot, jit-pre-opt, jit-post-opt or jit-pre-opt-sbs is
\* accepted, any other field is fatal, and the end of the fields (at once
\* for the unset variable) is not.
C20_PrintIRTokens ==
    [][/\ (dip = "loop" /\ Env # <<>>) =>
            (dip' = "fatal" <=>
                Head(Env) \notin {"aot", "jit-pre-opt", "jit-post-opt",
                                  "jit-pre-opt-sbs"})
       /\ (dip = "loop" /\ Env = <<>>) => dip' = "ready"]_vars

-----------------------------------------------------------------------------
(* GlobalAOTMod and ThreadAOTMod: the module each thread compiles against *)

MaxCalls == 2
otherVars == <<builderVars, NextTraceIdx, threads, functions, mapVars, printerVars>>

InitAOT ==
    /\ BuilderIdle /\ NoThreads /\ MapIdle /\ PrinterIdle
    /\ faddrs = <<>>
    /\ GlobalAOTModLoaded = "init" /\ GlobalAOTMod = 0
    /\ ThreadAOTMod = [t \in Threads |-> 0]
    /\ ThreadAOTModInitialized = [t \in Threads |-> FALSE]
    /\ callers = [t \in Threads |-> [at |-> "idle", AOTMod |-> 0, calls |-> 0]]
    /\ AOTInstances = <<>>

\* Line 1043: a thread enters __ykllvmwrap_irtrace_compile.
IrtraceCompile(t) ==
    /\ callers[t].at = "idle" /\ callers[t].calls < MaxCalls
    /\ callers' = [callers EXCEPT ![t].at = "call_once", ![t].calls = @ + 1]
    /\ UNCHANGED <<otherVars, GlobalAOTModLoaded, GlobalAOTMod, ThreadAOTMod,
                   ThreadAOTModInitialized, AOTInstances>>

\* Line 975, std::call_once(GlobalAOTModLoaded, ...): the first caller runs
\* the function, a caller that finds it running waits, a caller that finds
\* it done goes on.
CallOnce(t) ==
    /\ callers[t].at = "call_once"
    /\ \/ /\ GlobalAOTModLoaded = "init"
          /\ GlobalAOTModLoaded' = "running"
          /\ callers' = [callers EXCEPT ![t].at = "loadAOTMod"]
       \/ /\ GlobalAOTModLoaded = "done"
          /\ GlobalAOTModLoaded' = GlobalAOTModLoaded
          /\ callers' = [callers EXCEPT ![t].at = "check"]
    /\ UNCHANGED <<otherVars, GlobalAOTMod, ThreadAOTMod, ThreadAOTModInitialized,
                   AOTInstances>>

\* Lines 960-971: the module is parsed from the section into a context of its
\* own and assigned to GlobalAOTMod; call_once then marks the flag.
LoadAOTMod(t) ==
    /\ callers[t].at = "loadAOTMod"
    /\ AOTInstances' = Append(AOTInstances, [by |-> "load", thread |-> t, of |-> 0])
    /\ GlobalAOTMod' = Len(AOTInstances) + 1
    /\ GlobalAOTModLoaded' = "done"
    /\ callers' = [callers EXCEPT ![t].at = "check"]
    /\ UNCHANGED <<otherVars, ThreadAOTMod, ThreadAOTModInitialized>>

\* Line 978: ThreadAOTModInitialized = true.
SetInitializedNot(flags, t) == flags
SetInitialized(flags, t) == [flags EXCEPT ![t] = TRUE]

\* Lines 976-979: the thread that holds no copy yet clones GlobalAOTMod into a
\* new context.
CloneToNewContext(t) ==
    /\ callers[t].at = "check" /\ ~ThreadAOTModInitialized[t]
    /\ AOTInstances' = Append(AOTInstances, [by |-> "clone", thread |-> t, of |-> GlobalAOTMod])
    /\ ThreadAOTMod' = [ThreadAOTMod EXCEPT ![t] = Len(AOTInstances) + 1]
    /\ ThreadAOTModInitialized' = SetInitialized(ThreadAOTModInitialized, t)
    /\ callers' = [callers EXCEPT ![t].at = "return"]
    /\ UNCHANGED <<otherVars, GlobalAOTModLoaded, GlobalAOTMod>>

\* Lines 976, 980: the thread that holds a copy returns it.
ReuseThreadAOTMod(t) ==
    /\ callers[t].at = "check" /\ ThreadAOTModInitialized[t]
    /\ callers' = [callers EXCEPT ![t].at = "return"]
    /\ UNCHANGED <<otherVars, GlobalAOTModLoaded, GlobalAOTMod, ThreadAOTMod,
                   ThreadAOTModInitialized, AOTInstances>>

\* Lines 1048-1051: Module *AOTMod = ThreadAOTMod->getModuleUnlocked(), and
\* the compilation against it starts.
GetModuleUnlocked(t) ==
    /\ callers[t].at = "return"
    /\ callers' = [callers EXCEPT ![t].at = "compile", ![t].AOTMod = ThreadAOTMod[t]]
    /\ UNCHANGED <<otherVars, GlobalAOTModLoaded, GlobalAOTMod, ThreadAOTMod,
                   ThreadAOTModInitialized, AOTInstances>>

\* Line 1074: the entry point returns.
CompileReturns(t) ==
    /\ callers[t].at = "compile"
    /\ callers' = [callers EXCEPT ![t].at = "idle", ![t].AOTMod = 0]
    /\ UNCHANGED <<otherVars, GlobalAOTModLoaded, GlobalAOTMod, ThreadAOTMod,
                   ThreadAOTModInitialized, AOTInstances>>

NextAOT ==
    \E t \in Threads :
        \/ IrtraceCompile(t)
        \/ CallOnce(t)
        \/ LoadAOTMod(t)
        \/ CloneToNewContext(t)
        \/ ReuseThreadAOTMod(t)
        \/ GetModuleUnlocked(t)
        \/ CompileReturns(t)
SpecAOT == InitAOT /\ [][NextAOT]_vars

Loaded == {i \in 1..Len(AOTInstances) : AOTInstances[i].by = "load"}
ClonedBy(t) ==
    {i \in 1..Len(AOTInstances) :
        AOTInstances[i].by = "clone" /\ AOTInstances[i].thread = t}

\* C21: the image is loaded at most once, and exactly once before any thread
\* has its module; each thread clones at most once, and the module it has and
\* compiles against is that one clone of the loaded image; two threads never
\* compile against the same instance.
C21_PerThreadAOTCopies ==
    /\ Cardinality(Loaded) <= 1
    /\ \A t \in Threads :
        /\ Cardinality(ClonedBy(t)) <= 1
        /\ ThreadAOTModInitialized[t] <=> ClonedBy(t) # {}
        /\ callers[t].at \in {"return", "compile"} =>
              /\ Loaded = {GlobalAOTMod}
              /\ ClonedBy(t) = {ThreadAOTMod[t]}
              /\ AOTInstances[ThreadAOTMod[t]].of = GlobalAOTMod
        /\ callers[t].at = "compile" => callers[t].AOTMod = ThreadAOTMod[t]
    /\ \A t, u \in Threads :
        (t # u /\ callers[t].at = "compile" /\ callers[u].at = "compile")
            => callers[t].AOTMod # callers[u].AOTMod
\* Two threads compile at the same time, one of them for the second time.
C21_Witness ==
    \E t, u \in Threads :
        /\ t # u
        /\ callers[t].at = "compile" /\ callers[t].calls = 2
        /\ callers[u].at = "compile"

-----------------------------------------------------------------------------
(* Inlined calls and their returns *)

\* The builder once handleOperand has run on every actual argument of the
\* call at hand.
ActualsHandled == HandleOperands(BR, ArgOperands(CurI))
\* The walk is at a direct call, after the control point and outside an
\* outlined call, of a defined function that no frame's call calls, and the
\* arguments can be handled and have JIT counterparts.
InlineStep ==
    /\ AtInstr
    /\ SeenControlPoint
    /\ RecCallDepth = 0
    /\ IsDirectCall(CurI)
    /\ ~aot.funcs[CalledFunction(CurI)].decl
    /\ ~IsRecursiveCall(B, CalledFunction(CurI))
    /\ ActualsHandled.err = ""
    /\ \A i \in 1..Len(ArgOperands(CurI)) :
          MappedValueOK(ActualsHandled, ArgOperands(CurI)[i])

\* C22: the step of such a call leaves the body of the compiled trace as it
\* is, pushes the frame <<index, call>>, binds formal parameter i of the
\* callee to the JIT counterpart of actual i, and leaves the caller's block:
\* the walk is back at the top of the loop over the trace with no resume
\* position set.
C22_Inlining ==
    [][InlineStep =>
        LET CF == CalledFunction(CurI)
            actuals == ArgOperands(CurI)
        IN  /\ pc' = "head"
            /\ JITMod'.body = JITMod.body
            /\ InlinedCalls' = Append(InlinedCalls, <<EffIdx, CurI>>)
            /\ RecCallDepth' = 0
            /\ \A i \in 1..Len(actuals) :
                  /\ Arg(CF, i - 1) \in DOMAIN VMap'
                  /\ VMap'[Arg(CF, i - 1)] = GetMappedValue(ActualsHandled, actuals[i])
            /\ ResumeAfter' = <<>>
            /\ ExpectUnmappable' = ExpectUnmappable]_vars
\* A call with an argument has been inlined: there is a frame, nothing of it
\* is in the body, and the formal is bound to an instruction of the body.
C22_Witness ==
    /\ pc = "head"
    /\ RecCallDepth = 0
    /\ InlinedCalls # <<>>
    /\ LET CI == Last(InlinedCalls)[2]
       IN  /\ HasCalledFunction(CI)
           /\ ArgOperands(CI) # <<>>
           /\ Arg(CalledFunction(CI), 0) \in DOMAIN VMap
           /\ InBody(B, VMap[Arg(CalledFunction(CI), 0)])
           /\ \A i \in 1..Len(Body) : Body[i].src # CI.id


\* The walk is at a return, after the control point, with a frame to pop, and
\* a returned value has a JIT counterpart.
ReturnStep ==
    /\ AtInstr
    /\ SeenControlPoint
    /\ CurI.k = "ret"
    /\ InlinedCalls # <<>> /\ LastCompletedBlocks # <<>>
    /\ (RecCallDepth = 0 /\ CurI.ops # <<>>) => MappedValueOK(B, CurI.ops[1])
\* The walk is at the first instruction it processes after a return.
ResumeStep == pc = "body" /\ ResumeAfter # <<>> /\ CurInstrIdx < Len(CurInsts)

\* C23: a return pops the frame pushed last and makes it the resume position,
\* and outside an outlined call maps that frame's call to the JIT counterpart
\* of the value returned; the resume position stays until a block is entered,
\* and the first instruction then processed is the one that follows the
\* frame's call.
C23_ReturnResumption ==
    [][/\ ReturnStep =>
            /\ pc' = "head"
            /\ InlinedCalls' = Front(InlinedCalls)
            /\ ResumeAfter' = << Last(InlinedCalls) >>
            /\ (RecCallDepth = 0 /\ CurI.ops # <<>>) =>
                  /\ Inst(Last(InlinedCalls)[2].id) \in DOMAIN VMap'
                  /\ VMap'[Inst(Last(InlinedCalls)[2].id)] = GetMappedValue(B, CurI.ops[1])
       /\ (pc = "head" /\ ResumeAfter # <<>> /\ pc' # "fatal") =>
            ResumeAfter' = ResumeAfter
       /\ (ResumeStep /\ pc' # "fatal") =>
            LET after == ResumeAfter[1][1] + 1
            IN  /\ after < Len(CurInsts)
                /\ pc' = "body" => CurInstrIdx' = after + 1
                /\ Len(JITMod'.body) > Len(JITMod.body) =>
                      Last(JITMod'.body).src = CurInsts[after + 1].id]_vars
\* The caller of an inlined call that returned a value has resumed at the
\* instruction after the call: the call is mapped and the frame is gone.
C23_Witness ==
    /\ pc = "body"
    /\ SeenControlPoint
    /\ ResumeAfter = <<>> /\ InlinedCalls = <<>> /\ RecCallDepth = 0
    /\ CurInstrIdx > 1
    /\ LET CI == CurInsts[CurInstrIdx - 1]
       IN  /\ IsDirectCall(CI)
           /\ ~aot.funcs[CalledFunction(CI)].decl
           /\ Inst(CI.id) \in DOMAIN VMap
           /\ InBody(B, VMap[Inst(CI.id)])

-----------------------------------------------------------------------------
(* Calls through a pointer *)

IndirectCallStep ==
    AtInstr /\ CurI.k = "call" /\ IsIndirectCall(CurI) /\ SeenControlPoint
\* What handleCallInst and the steps before and after it may change.
CallState(b) ==
    <<b.JITMod, b.VMap, b.globalMappings, b.cloned_globals, b.InlinedCalls,
      b.ResumeAfter, b.RecCallDepth, b.ExpectUnmappable, b.LastCompletedBlocks,
      b.DeleteDeadOnFinalise, b.NextInst>>
\* The step left the builder as handleCallInst for callee CF leaves it, or
\* ended the process where handleCallInst does.
HandledLikeCallOf(CF) ==
    LET h == HandleCallInst(BR, CurI, CF, EffIdx)
    IN  IF h.err # "" THEN pc' = "fatal"
        ELSE pc' = "head" /\ CallState(B') = CallState(h)

\* C24: an indirect call after the control point is passed only when the
\* entry that follows the current one exists; when it is a block of a defined function G the
\* call is handled as a direct call of G is, when it is a hole the call is
\* copied, ExpectUnmappable is set and ResumeAfter is the call.  Before the
\* control point an indirect call changes nothing but the position.
C24_IndirectCalls ==
    [][/\ (IndirectCallStep /\ pc' # "fatal") => Idx + 1 < Len(trace')
       /\ (IndirectCallStep /\ Idx + 1 < Len(trace')) =>
               LET e == trace'[Idx + 2]
               IN  /\ (e # Hole /\ e[1] \in DefinedFuncs) => HandledLikeCallOf(e[1])
                   /\ (e = Hole /\ pc' # "fatal") =>
                        /\ Len(JITMod'.body) = Len(JITMod.body) + 1
                        /\ Last(JITMod'.body).src = CurI.id
                        /\ ExpectUnmappable'
                        /\ ResumeAfter' = << <<EffIdx, CurI>> >>
                        /\ InlinedCalls' = InlinedCalls
       /\ (AtInstr /\ CurI.k = "call" /\ IsIndirectCall(CurI) /\ ~SeenControlPoint) =>
            /\ CallState(B') = CallState(BR)
            /\ pc' = "body"]_vars

-----------------------------------------------------------------------------
(* Outlined calls *)

\* The walk is at a call of a defined function: a direct one, or one through
\* a pointer that the next entry of the trace resolves to a defined function.
CallOfDefined ==
    /\ AtInstr /\ SeenControlPoint
    /\ \/ IsDirectCall(CurI) /\ ~aot.funcs[CalledFunction(CurI)].decl
       \/ /\ CurI.k = "call" /\ IsIndirectCall(CurI)
          /\ Idx + 1 < Len(trace')
          /\ trace'[Idx + 2] # Hole
          /\ trace'[Idx + 2][1] \in DefinedFuncs
\* The frame of the call that is being outlined: the frame RecCallDepth
\* frames down from the top.
OutlinedFrame == InlinedCalls[Len(InlinedCalls) - RecCallDepth + 1]
Emitted(CI) == \E i \in 1..Len(Body) : Body[i].k = "call" /\ Body[i].src = CI.id

\* C25: while RecCallDepth > 0, a call of a defined function adds one to the
\* depth and pushes a frame, a return takes one from the depth and pops a
\* frame, and neither changes the JIT module or the value map; no other step
\* changes the depth and nothing is added to the body; the depth counts the
\* frames from the outlined call's frame up, so it is 0 again exactly after
\* the return that pops that frame, which becomes the resume position.
C25_OutliningDepth ==
    [][RecCallDepth > 0 =>
        /\ Len(InlinedCalls) >= RecCallDepth
        /\ Emitted(OutlinedFrame[2])
        /\ (CallOfDefined /\ pc' # "fatal") =>
              /\ RecCallDepth' = RecCallDepth + 1
              /\ InlinedCalls' = Append(InlinedCalls, <<EffIdx, CurI>>)
              /\ JITMod' = JITMod /\ VMap' = VMap
        /\ (AtInstr /\ CurI.k = "ret" /\ pc' # "fatal") =>
              /\ RecCallDepth' = RecCallDepth - 1
              /\ InlinedCalls' = Front(InlinedCalls)
              /\ ResumeAfter' = << Last(InlinedCalls) >>
              /\ JITMod' = JITMod /\ VMap' = VMap
              /\ RecCallDepth' = 0 <=>
                    Len(InlinedCalls') = Len(InlinedCalls) - RecCallDepth
        /\ ~(CallOfDefined \/ (AtInstr /\ CurI.k = "ret")) =>
              RecCallDepth' = RecCallDepth
        /\ pc' \in {"head", "body"} => JITMod'.body = JITMod.body]_vars
\* A call made inside an outlined call has returned and the outlined call has
\* not: the depth is 1 again, with the outlined call's frame on top.
C25_Witness ==
    /\ pc = "head"
    /\ RecCallDepth = 1
    /\ InlinedCalls # <<>>
    /\ ResumeAfter # <<>>
    /\ LET CI == ResumeAfter[1][2]
       IN  /\ CI.k = "call" /\ ~Emitted(CI)
           /\ HasCalledFunction(CI) /\ ~aot.funcs[CalledFunction(CI)].decl
    /\ Emitted(Last(InlinedCalls)[2])

-----------------------------------------------------------------------------
(* Before the control point *)

\* C26: a step that processes an instruction while the control point has not
\* been seen leaves the JIT module, the frames, ExpectUnmappable, ResumeAfter,
\* RecCallDepth and DeleteDeadOnFinalise as they are.
C26_NothingBeforeControlPoint ==
    [][(pc = "body" /\ ~SeenControlPoint) =>
        /\ JITMod' = JITMod
        /\ InlinedCalls' = InlinedCalls
        /\ ExpectUnmappable' = ExpectUnmappable
        /\ ResumeAfter' = ResumeAfter
        /\ RecCallDepth' = RecCallDepth
        /\ DeleteDeadOnFinalise' = DeleteDeadOnFinalise]_vars
\* The control point is about to be seen, after an indirect call, a store and
\* a branch of an earlier block have been passed.
C26_Witness ==
    /\ aot.name = "ind"
    /\ trace = << <<"main", 0>>, <<"main", 1>> >>
    /\ AtInstr /\ ~SeenControlPoint
    /\ IsCallTo(CurI, YK_NEW_CONTROL_POINT)
    /\ JITMod.body = <<>>

-----------------------------------------------------------------------------
(* Initialisers of the copied globals *)

\* The globals of the JIT module whose AOT original has an initialiser.
CopiedWithInitializer ==
    {g \in DOMAIN JITMod.globals : g \in DOMAIN aot.globals /\ aot.globals[g].hasInit}
CarriesInitializer(g) ==
    /\ JITMod.globals[g].hasInit
    /\ JITMod.globals[g].init = MapValue(B, aot.globals[g].init)

\* C27: in a returned module every global whose AOT original has an
\* initialiser, constant or not, carries the mapped copy of it.
C27_InitialisersOfAllGlobals ==
    returned = "module" => \A g \in CopiedWithInitializer : CarriesInitializer(g)
\* C27 (amended): in a returned module every constant global whose AOT
\* original has an initialiser carries the mapped copy of it, and a global
\* that is not constant has none.
C27_InitialisersOfConstantGlobals ==
    returned = "module" =>
        \A g \in CopiedWithInitializer :
            IF aot.globals[g].const THEN CarriesInitializer(g)
            ELSE ~JITMod.globals[g].hasInit
\* A returned module with a constant global that has its initialiser.
C27_Witness ==
    /\ returned = "module"
    /\ \E g \in CopiedWithInitializer : aot.globals[g].const /\ CarriesInitializer(g)

-----------------------------------------------------------------------------
(* Indirect branches and the values deleted for them *)

\* The instructions and globals of the JIT module, as values.
ModuleValues(b) ==
    {JInst(b.JITMod.body[i].n) : i \in 1..Len(b.JITMod.body)}
    \cup {JGV(g) : g \in DOMAIN b.JITMod.globals}
Finalising == returned = "none" /\ returned' = "module"

\* C28: an indirect branch processed after the control point queues the JIT
\* counterpart of its address and emits nothing; the step that finalises
\* leaves no queued value in the module, no value that had users and lost
\* them all, and no operand without its definition, and an erased global is
\* not among the globals that get an initialiser.
C28_DeadValuesDeleted ==
    [][/\ (AtInstr /\ SeenControlPoint /\ CurI.k = "indirectbr" /\ pc' # "fatal") =>
            /\ CurI.ops[1] \in DOMAIN VMap
            /\ DeleteDeadOnFinalise' = Append(DeleteDeadOnFinalise, VMap[CurI.ops[1]])
            /\ JITMod' = JITMod
       /\ Finalising =>
            /\ \A k \in 1..Len(DeleteDeadOnFinalise) :
                  DeleteDeadOnFinalise[k] \notin ModuleValues(B')
            /\ \A v \in ModuleValues(B) :
                  /\ (JITUsers(B, v) # {} /\ JITUsers(B', v) = {}) =>
                        v \notin ModuleValues(B')
                  /\ JITUsers(B', v) # {} => v \in ModuleValues(B')
                  /\ (Tag(v) = "jgv" /\ v \notin ModuleValues(B')) =>
                        \A k \in 1..Len(cloned_globals') :
                            VMap'[GV(cloned_globals'[k])] # v]_vars
\* A returned module from which the address of an indirect branch, the
\* instructions that computed it and the table they read are gone, while a
\* constant global with other users is still there.
C28_Witness ==
    /\ returned = "module"
    /\ DeleteDeadOnFinalise # <<>>
    /\ \A i \in 1..Len(Body) : Body[i].src \notin {"addr", "t"}
    /\ "tbl" \notin DOMAIN JITMod.globals
    /\ "k" \in DOMAIN JITMod.globals

-----------------------------------------------------------------------------
(* InsertValueMap *)

\* The insertvalue instructions that feed argument 1 of the control point
\* call, the one nearest to the call first.
RECURSIVE InsertChain(_)
InsertChain(OutS) ==
    IF ~IsInst(OutS, "insertvalue") THEN <<>>
    ELSE <<InstById(NameOf(OutS))>> \o InsertChain(InstById(NameOf(OutS)).ops[1])
ControlPointChain == InsertChain(GetYkCtrlPointVarsStruct)
WrittenAt(i) == {k \in 1..Len(ControlPointChain) : ControlPointChain[k].idx = i}
WrittenIndices == {ControlPointChain[k].idx : k \in 1..Len(ControlPointChain)}
NotPHIAt(i) == {k \in WrittenAt(i) : ~IsInst(ControlPointChain[k].ops[2], "phi")}
Minimum(S) == CHOOSE x \in S : \A y \in S : x <= y
Initialised == pc = "start" /\ pc' = "head"

ExtractStep ==
    /\ AtInstr /\ SeenControlPoint /\ RecCallDepth = 0
    /\ CurI.k = "extractvalue" /\ CurI.aggTy = OutputStruct

\* C29: the step that clones such an extractvalue at index i maps the value
\* the map holds at i to the clone; when the map holds nothing at i, the
\* value map gains the entry of the clone and no other.
C29_ExtractInsertAlignment ==
    [][(ExtractStep /\ pc' # "fatal") =>
        /\ Inst(CurI.id) \in DOMAIN VMap'
        /\ IF CurI.idx \in DOMAIN InsertValueMap
           THEN /\ InsertValueMap[CurI.idx] \in DOMAIN VMap'
                /\ VMap'[InsertValueMap[CurI.idx]] = VMap'[Inst(CurI.id)]
                /\ DOMAIN VMap' \subseteq
                       DOMAIN VMap \cup {Inst(CurI.id), InsertValueMap[CurI.idx]}
           ELSE DOMAIN VMap' \subseteq DOMAIN VMap \cup {Inst(CurI.id)}]_vars

-----------------------------------------------------------------------------
(* LastCompletedBlocks *)

\* A call has just pushed a frame and its null slot, and the walk is at the
\* top of the loop, about to enter the callee's first block.
FramePushed ==
    /\ pc = "head"
    /\ InlinedCalls # <<>>
    /\ LastCompletedBlocks # <<>>
    /\ Last(LastCompletedBlocks) = NullBB
BlockEntered == pc = "head" /\ pc' = "body"

\* C31: after the control point, while the first block of a callee that has
\* just been entered is processed the top slot is null, and whenever a block
\* is processed the top slot is null or a block of the function of that block.
C31_LastCompletedBlockDiscipline ==
    [][(BlockEntered /\ SeenControlPoint) =>
        /\ FramePushed => Last(LastCompletedBlocks') = NullBB
        /\ \/ Last(LastCompletedBlocks') = NullBB
           \/ Last(LastCompletedBlocks')[1] = NextCompletedBlock'[1]]_vars

-----------------------------------------------------------------------------
(* Recursion through function pointers *)

\* The run of the AOT program along the entries up to the block being
\* compiled.
RefCur == RefWalk(RefInit, SubSeq(trace, 1, Idx + 1), 1)
\* The program is at the call the compiler is at.
RefAtCall ==
    /\ RefCur.status = "run"
    /\ RefCur.want \in {"callee", "icallee"}
    /\ RefTop(RefCur).pos <= Len(RefInsts(RefCur))
    /\ RefInsts(RefCur)[RefTop(RefCur).pos] = CurI
\* The function has a frame on the program's call stack above the outermost
\* one.
RefInFlight(F) ==
    \E i \in 2..Len(RefCur.frames) : RefCur.frames[i].fn = F
\* At recursion depth 0 the compiler is at a call of a function that is in
\* flight; the callee of a call through a pointer is the function whose first
\* block is the next trace entry.
SecondCallStep ==
    /\ AtInstr
    /\ SeenControlPoint
    /\ RecCallDepth = 0
    /\ IsDirectCall(CurI) \/ (CurI.k = "call" /\ IsIndirectCall(CurI))
    /\ StepCallee \in DefinedFuncs
    /\ IsIndirectCall(CurI) => trace'[Idx + 2][2] = 0
    /\ RefAtCall
    /\ RefInFlight(StepCallee)

\* C32: at recursion depth 0 a call whose callee (named, or found in the next
\* trace entry) has an inlined frame on the stack, whether that frame was
\* pushed by a direct or by an indirect call, is outlined: the frame it pushes
\* is at recursion depth 1.
C32_NoUnboundedUnrolling ==
    [][(SecondCallStep /\ pc' # "fatal") =>
        /\ Len(InlinedCalls') = Len(InlinedCalls) + 1
        /\ RecCallDepth' = 1]_vars

-----------------------------------------------------------------------------
(* The body of a call that is not inlined *)

\* The walk is about to process an instruction inside an outlined call, and
\* the entries read so far are a path the AOT program can take from the
\* control point.
OutlinedStep ==
    /\ AtInstr
    /\ SeenControlPoint
    /\ RecCallDepth > 0
    /\ Ref.status = "run"

\* C33: along a path of the AOT program, at recursion depth above 0 the step that processes an instruction, of
\* whatever kind, leaves the compiled-trace function and the list of values
\* to delete on finalisation as they are and does not end the compilation.
C33_OutliningSilent ==
    [][OutlinedStep =>
        /\ JITMod'.body = JITMod.body
        /\ DeleteDeadOnFinalise' = DeleteDeadOnFinalise
        /\ pc' # "fatal"]_vars

-----------------------------------------------------------------------------
(* Returns and the call stack *)

\* The walk is at a return after the control point, and the entries read up
\* to the block being compiled are a path of the AOT program: one that has
\* just returned into a caller on the program's stack, or one on which the
\* function that holds the control point returns.
ReturnsToCaller == RefCur.status = "run" /\ RefCur.want = "resume"
OutermostReturns == RefCur.status = "bad" /\ RefCur.want = "caller"
ReturnOnPath ==
    /\ AtInstr
    /\ SeenControlPoint
    /\ CurI.k = "ret"
    /\ ReturnsToCaller \/ OutermostReturns
\* The call the program has returned to.
RefReturnedTo == RefInsts(RefCur)[RefTop(RefCur).pos - 1]

\* C34: when a return is processed after the control point on a path of the
\* AOT program, the stack of inlined calls holds a frame, and when the
\* program returns into a caller the frame on top is the one of the call
\* returned to.
C34_NoUnderflow ==
    [][ReturnOnPath =>
        /\ InlinedCalls # <<>>
        /\ ReturnsToCaller => Last(InlinedCalls)[2] = RefReturnedTo]_vars

-----------------------------------------------------------------------------
(* Resume positions *)

\* The block being compiled is the first block of a function whose address is
\* taken, right after a hole: code outside the module has called back into
\* the module (shadow_reentrant.c).
CallbackEntered ==
    /\ Idx >= 1
    /\ trace[Idx] = Hole
    /\ NextCompletedBlock[1] \in AddressTaken
    /\ NextCompletedBlock[2] = 0
\* A resume position is about to be consumed, the entries before the block
\* being compiled are a path of the AOT program, and the block is the next
\* block of that path or the entry of a callback.
ResumeOnPath ==
    /\ ResumeStep
    /\ SeenControlPoint
    /\ RefBefore.status = "run"
    /\ RefCur.status = "run" \/ CallbackEntered

\* C35: when a resume position is consumed, the block being processed holds
\* the call the position records at the index it records, so the index after
\* it is an instruction of the block; this is so also in a block that code
\* outside the module called back into.
C35_ResumeInRightBlock ==
    [][ResumeOnPath =>
        /\ ResumeAfter[1][1] + 1 < Len(CurInsts)
        /\ CurInsts[ResumeAfter[1][1] + 1] = ResumeAfter[1][2]]_vars

-----------------------------------------------------------------------------
(* What the JIT module refers to *)

\* A value of the JIT module or a constant that belongs to no module.  A
\* constant expression is one when every operand of it is, at any depth.
RECURSIVE SelfContained(_)
SelfContained(v) ==
    IF IsAOTOwned(v) \/ v = NullPtr THEN FALSE
    ELSE IF Tag(v) = "ce" THEN
        \A i \in 1..Len(aot.cexprs[NameOf(v)]) : SelfContained(aot.cexprs[NameOf(v)][i])
    ELSE IF Tag(v) = "jce" THEN
        /\ NameOf(v) \in DOMAIN JITMod.cexprs
        /\ \A i \in 1..Len(JITMod.cexprs[NameOf(v)]) :
              SelfContained(JITMod.cexprs[NameOf(v)][i])
    ELSE IF Tag(v) = "jgv" THEN NameOf(v) \in DOMAIN JITMod.globals
    ELSE IF Tag(v) = "jfn" THEN NameOf(v) \in DOMAIN JITMod.funcs
    ELSE IF Tag(v) = "jinst" THEN \E i \in 1..Len(Body) : Body[i].n = NumOf(v)
    ELSE TRUE

\* C36: every operand of an instruction of the compiled trace and every
\* initialiser attached to a global of the JIT module is a value of the JIT
\* module or a constant of no module, at any depth of a constant expression.
C36_SelfContained ==
    /\ \A i \in 1..Len(Body) : \A j \in 1..Len(Body[i].ops) :
          SelfContained(Body[i].ops[j])
    /\ \A g \in DOMAIN JITMod.globals :
          JITMod.globals[g].hasInit => SelfContained(JITMod.globals[g].init)

-----------------------------------------------------------------------------
(* Deleting the values queued for indirect branches *)

\* createModule is about to call finalise: at the stop marker, or at the end
\* of the trace after the return has been appended.
FinaliseReady ==
    \/ pc = "head" /\ Idx = Len(trace)
    \/ AtInstr /\ IsCallTo(CurI, YKTRACE_STOP)
FinaliseInput ==
    IF pc = "head" THEN CreateRet(B, VMap[Inst(ControlPointCallSite.id)]) ELSE BR

\* C37: the deletion of the queued values runs to its end: it meets no value
\* that was erased before, erases no value that still has users, and takes
\* from its work list nothing but instructions and global variables.
C37_TransitiveDeletionSafe ==
    (FinaliseReady /\ DeleteDeadOnFinalise # <<>>) =>
        DeleteAllDead(FinaliseInput, DeleteDeadOnFinalise).err = ""

-----------------------------------------------------------------------------
(* YKD_PRINT_IR from one compilation to the next *)

\* Every field of the variable names a stage the printer knows.
ValidPrintIR ==
    \A i \in 1..Len(YKD_PRINT_IR) :
        YKD_PRINT_IR[i] \in {"aot", "jit-pre-opt", "jit-post-opt"}

\* C38: the parsing that a compilation does of a value that lists stages
\* leaves the value of YKD_PRINT_IR as it found it, so that the next
\* compilation reads the fields that this one read.
C38_PrintIRStable ==
    [][(dip = "loop" /\ ValidPrintIR) => YKD_PRINT_IR' = YKD_PRINT_IR]_vars

-----------------------------------------------------------------------------
(* Termination of createModule *)

Terminated == pc \in {"done", "fatal"}

\* C39: every step of createModule ends it, with a module (returned only
\* after the finaliser's work list has emptied) or with a fatal error, or
\* moves it forward: the index into the trace never goes back, stays within
\* the trace, and goes up by one whenever the walk comes back to the top of
\* the loop, so no entry is visited twice; inside a block the instruction
\* index goes up at every step and stays within the block, and the jump to a
\* resume position is made from index 0 only.
C39_Termination ==
    [][\/ Terminated'
       \/ /\ Idx' >= Idx
          /\ Idx' <= Len(trace')
          /\ (pc' = "head" /\ pc # "start") => Idx' = Idx + 1
          /\ (pc = "head" /\ pc' = "body") => Idx' = Idx
          /\ (pc = "body" /\ pc' = "body") => CurInstrIdx' > CurInstrIdx
          /\ pc' = "body" => CurInstrIdx' <= Len(CurInsts')
          /\ (pc = "body" /\ ResumeAfter # <<>>) => CurInstrIdx = 0]_vars
\* A module was returned for a trace of several blocks, after the finaliser
\* had values to delete.
C39_Witness ==
    /\ pc = "done"
    /\ returned = "module"
    /\ Len(trace) >= 3
    /\ Idx = Len(trace)
    /\ DeleteDeadOnFinalise # <<>>

-----------------------------------------------------------------------------
(* InlinedCalls, LastCompletedBlocks and RecCallDepth together *)

Walking == pc \in {"head", "body"}
InLockstep ==
    /\ Len(LastCompletedBlocks) = Len(InlinedCalls) + 1
    /\ RecCallDepth <= Len(InlinedCalls)

\* C40: while the trace is walked LastCompletedBlocks has one element more
\* than InlinedCalls and RecCallDepth is at most the length of InlinedCalls;
\* the step that processes an external call and the step that consumes a
\* hole leave both stacks as they are.
C40_FramesInLockstep ==
    [][/\ (Walking /\ Walking') => InLockstep'
       /\ (ExternalCallStep \/ HoleConsumed) =>
             UNCHANGED <<InlinedCalls, LastCompletedBlocks>>]_vars

=============================================================================
